---- MODULE Spec2Model ----
(***************************************************************************)
(* A model of git-mcp-server: the error classifier (utils/errors.py), the  *)
(* repository handle singleton and helpers (utils/git_client.py) and the   *)
(* tool operations (tools/*.py).                                           *)
(*                                                                         *)
(* Texts are TLA+ strings; Python's `in`, str.startswith, str.replace and  *)
(* str.lower are computed on them character by character.                  *)
(***************************************************************************)
EXTENDS Integers, Sequences, FiniteSets, TLC

VARIABLES
    exc,            \* the exception handed to handle_git_error
    gitError,       \* what the first call of handle_git_error(exc) gave
    gitError2,      \* what a second call with the same exception gave
    cwd,            \* the process's working directory (Path.cwd())
    repo_instance,  \* _repo_instance, the module-level singleton
    opened,         \* number of Repo(...) constructions attempted so far
    call,           \* the last call of the handle manager and its outcome
    prevHandle,     \* the handle the cache held before the last reset_repo
    failedSinceReset, \* a get_repo has raised since the last reset_repo
    threads,        \* the concurrent callers of the handle manager: where each is in its call
    lastWrite,      \* the value last stored in _repo_instance by a concurrent caller
    repos,          \* the repositories on disk, by root directory
    server,         \* the branches of the remote repository, as the remote holds them
    token,          \* the environment variable GITHUB_TOKEN
    nextSha,        \* the next commit id the git layer hands out
    gitCalls,       \* the network and mutating git calls made by the last tool operation
    gitStderr,      \* git's stderr of the failed call that ended it, None when none failed
    treeDiff,       \* the entries of the tree diff the last tool operation asked git for
    result,         \* the last tool operation, its arguments and its outcome
    ops,            \* number of tool operations run so far
    parents         \* the commit graph where it is kept whole: the parents of each commit

classifyVars == <<exc, gitError, gitError2>>
handleVars == <<cwd, repo_instance, opened, call, prevHandle, failedSinceReset,
                threads, lastWrite>>
toolVars == <<repos, server, token, nextSha, gitCalls, gitStderr, treeDiff, result, ops,
               parents>>
vars == <<classifyVars, handleVars, toolVars>>

None == "<None>"    \* Python's None

\* GitError(error_type, message, suggestion, command)
GitError(error_type, message, suggestion, command) ==
    [error_type |-> error_type, message |-> message,
     suggestion |-> suggestion, command |-> command]

\* no structured error yet
NoGitError == GitError(None, None, None, None)

\* The classifier not in use
ClassifyIdle ==
    /\ exc = [cls |-> "Exception", msg |-> None]
    /\ gitError = NoGitError
    /\ gitError2 = NoGitError

(***************************************************************************)
(* Python string primitives                                                *)
(***************************************************************************)

\* Number of message fragments an error text is concatenated from.
MaxFragments == 2

LowerChars == "abcdefghijklmnopqrstuvwxyz"

\* The lower-case letter of each upper-case letter
LowerOf ==
    "A" :> "a" @@ "B" :> "b" @@ "C" :> "c" @@ "D" :> "d" @@ "E" :> "e" @@ "F" :> "f" @@
    "G" :> "g" @@ "H" :> "h" @@ "I" :> "i" @@ "J" :> "j" @@ "K" :> "k" @@ "L" :> "l" @@
    "M" :> "m" @@ "N" :> "n" @@ "O" :> "o" @@ "P" :> "p" @@ "Q" :> "q" @@ "R" :> "r" @@
    "S" :> "s" @@ "T" :> "t" @@ "U" :> "u" @@ "V" :> "v" @@ "W" :> "w" @@ "X" :> "x" @@
    "Y" :> "y" @@ "Z" :> "z"

\* str.lower() of a one-character string
LowerChar(c) == IF c \in DOMAIN LowerOf THEN LowerOf[c] ELSE c

\* str.lower(): character by character (by halves, to keep the evaluation shallow)
RECURSIVE Lower(_)
Lower(s) ==
    IF Len(s) = 0 THEN s
    ELSE IF Len(s) = 1 THEN LowerChar(s)
    ELSE LET h == Len(s) \div 2
         IN  Lower(SubSeq(s, 1, h)) \o Lower(SubSeq(s, h + 1, Len(s)))

\* sub in s
Contains(sub, s) ==
    \E i \in 1..(Len(s) - Len(sub) + 1) : SubSeq(s, i, i + Len(sub) - 1) = sub

\* s.startswith(prefix)
StartsWith(s, prefix) ==
    /\ Len(prefix) <= Len(s)
    /\ SubSeq(s, 1, Len(prefix)) = prefix

\* s occurs in t at position i
OccursAt(sub, s, i) == SubSeq(s, i, i + Len(sub) - 1) = sub

\* s.replace(old, new): every occurrence, left to right
RECURSIVE Replace(_, _, _)
Replace(s, old, new) ==
    IF ~Contains(old, s) THEN s
    ELSE LET i == CHOOSE j \in 1..(Len(s) - Len(old) + 1) :
                      /\ OccursAt(old, s, j)
                      /\ \A k \in 1..(j - 1) : ~OccursAt(old, s, k)
         IN  SubSeq(s, 1, i - 1) \o new
             \o Replace(SubSeq(s, i + Len(old), Len(s)), old, new)

\* some character of s is one of chars
HasCharOf(s, chars) ==
    \E i \in 1..Len(s) : Contains(SubSeq(s, i, i), chars)

\* every character of s is one of chars
OnlyCharsOf(s, chars) ==
    \A i \in 1..Len(s) : Contains(SubSeq(s, i, i), chars)

Digits == "0123456789"

\* str(n) of a natural number
RECURSIVE IntToStr(_)
IntToStr(n) ==
    IF n < 10 THEN SubSeq(Digits, n + 1, n + 1)
    ELSE IntToStr(n \div 10) \o SubSeq(Digits, (n % 10) + 1, (n % 10) + 1)

(***************************************************************************)
(* The git layer: commits, repositories, the remote                        *)
(***************************************************************************)

\* Largest commit id the git layer hands out.
MaxSha == 5

\* A commit: its id and the ids of the commits reachable from it (itself
\* included).
Commit(sha, hist) == [sha |-> sha, hist |-> hist]
NoCommit == Commit(0, {})

\* repo.iter_commits("a..b"): the commits reachable from b and not from a
Range(a, b) == b.hist \ a.hist

DETACHED == "<detached>"

\* A repository: the checked-out branch (or DETACHED), the commit HEAD points
\* at when detached, the local branches, the remote-tracking branches, the
\* configured remotes with their URLs, the three working-tree lists, the
\* upstream configured for each local branch, the operation left in
\* progress by a conflict and the log: the message and the changed files of
\* each commit made through the index.
Repository(head, detachedAt, heads, tracking, remotes, staged, modified, untracked) ==
    [head |-> head, detachedAt |-> detachedAt, heads |-> heads,
     tracking |-> tracking, remotes |-> remotes,
     staged |-> staged, modified |-> modified, untracked |-> untracked,
     upstream |-> <<>>, inProgress |-> None, log |-> <<>>]

\* repo.head.is_detached
is_detached(R) == R.head = DETACHED

\* repo.head.commit
HeadCommit(R) == IF is_detached(R) THEN R.detachedAt ELSE R.heads[R.head]

\* HEAD, and the branch it is on, moved to commit c
MoveHead(R, c) ==
    IF is_detached(R) THEN [R EXCEPT !.detachedAt = c]
    ELSE [R EXCEPT !.heads = [b \in DOMAIN R.heads |-> IF b = R.head THEN c ELSE R.heads[b]]]

\* Mutant: repo.is_dirty() with its default untracked_files=False
is_dirty_tracked_only(R) == R.staged # {} \/ R.modified # {}

\* repo.is_dirty(untracked_files=True)
is_dirty(R) == R.staged # {} \/ R.modified # {} \/ R.untracked # {}

\* A function extended or overwritten at one point
Put(f, k, v) == [x \in DOMAIN f \cup {k} |-> IF x = k THEN v ELSE f[x]]

\* str(GitCommandError): GitPython prints the command line and git's stderr
GitCommandErrorText(cmdline, stderr) ==
    "Cmd('git') failed due to: exit code(1)\n  cmdline: " \o cmdline
    \o "\n  stderr: '" \o stderr \o "'"

\* What a git-layer call gives: the repository and remote after it, and the
\* stderr of the failure (None when the call succeeded).
Outcome(stderr, R, srv, used) ==
    [stderr |-> stderr, repo |-> R, server |-> srv, used |-> used]

(***************************************************************************)
(* utils/git_client.py: the repository handle singleton                    *)
(***************************************************************************)

\* Number of Repo(...) constructions a behaviour may attempt.
MaxOpens == 3

\* The directories of the file system; RepoRoots hold a .git directory.
Dirs == {"/", "/tmp", "/work", "/work/app", "/work/app/src", "/work/lib"}
RepoRoots == {"/work/app", "/work/lib"}

Parent(d) ==
    CASE d = "/work/app/src" -> "/work/app"
      [] d = "/work/app"     -> "/work"
      [] d = "/work/lib"     -> "/work"
      [] OTHER               -> "/"

\* Repo(path, search_parent_directories=True): the repository root found by
\* walking upward from path, None when the walk reaches "/" without one
\* (InvalidGitRepositoryError).
RECURSIVE Discover(_)
Discover(d) ==
    IF d \in RepoRoots THEN d
    ELSE IF d = "/" THEN None
    ELSE Discover(Parent(d))

\* A Repo object: its identity and the root it was opened on.
Handle(id, root) == [id |-> id, root |-> root]

\* _repo_instance = None
NoRepo == Handle(0, None)

\* The text of the ValueError get_repo raises
NotARepoText(dir) ==
    "Not a git repository: " \o dir
    \o "\nPlease run this tool from within a git repository."

\* The concurrent callers of get_repo and reset_repo
ThreadIds == {1, 2}

\* A caller: the function it is in, the statement it is at, the Repo it has
\* constructed, what the call raised or returned, and the calls it has made
Thread(op, pc, made, raised, ret, calls) ==
    [op |-> op, pc |-> pc, made |-> made, raised |-> raised, ret |-> ret, calls |-> calls]

\* No caller is in a call
NoThreads == [t \in ThreadIds |-> Thread(None, "idle", NoRepo, None, NoRepo, 0)]

\* get_repo(): does the call raise
get_repo_raises == repo_instance = NoRepo /\ Discover(cwd) = None

\* get_repo(): does the call construct a Repo (successfully or not)
get_repo_opens == repo_instance = NoRepo

\* Mutant: the cached handle is reused only while the working directory
\* still lies in its repository; otherwise a new one is opened.
get_repo_instance_recheck_cwd ==
    IF repo_instance # NoRepo /\ repo_instance.root = Discover(cwd) THEN repo_instance
    ELSE IF Discover(cwd) = None THEN NoRepo
    ELSE Handle(opened + 1, Discover(cwd))

\* Mutant: a failed discovery is cached as a handle without a root.
get_repo_instance_caches_failure ==
    IF repo_instance # NoRepo THEN repo_instance
    ELSE Handle(opened + 1, Discover(cwd))

\* get_repo(): _repo_instance after the call
get_repo_instance ==
    IF repo_instance # NoRepo THEN repo_instance
    ELSE IF Discover(cwd) = None THEN NoRepo
    ELSE Handle(opened + 1, Discover(cwd))

\* Mutant: reset_repo leaves the singleton alone.
reset_repo_instance_kept == repo_instance

\* reset_repo(): _repo_instance after the call
reset_repo_instance == NoRepo

Call(op, raised, msg, ret, dir) ==
    [op |-> op, raised |-> raised, msg |-> msg, ret |-> ret, cwd |-> dir]

NoCall == Call(None, None, None, NoRepo, None)

\* The handle manager at rest, as after import in a fresh process
HandleIdle ==
    /\ cwd = "/tmp"
    /\ repo_instance = NoRepo
    /\ opened = 0
    /\ call = NoCall
    /\ prevHandle = NoRepo
    /\ failedSinceReset = FALSE
    /\ threads = NoThreads
    /\ lastWrite = NoRepo

\* A tool operation, its arguments and what it raised or returned
Result(op, args, raised, msg, ret) ==
    [op |-> op, args |-> args, raised |-> raised, msg |-> msg, ret |-> ret]

NoArgs == [none |-> TRUE]
NoRet == [none |-> TRUE]
NoResult == Result(None, NoArgs, None, None, NoRet)

A1 == Commit(1, {1})        \* the root commit
A2 == Commit(2, {1, 2})     \* a child of the root
A3 == Commit(3, {1, 3})     \* another child of the root

\* A clean repository with one commit on main and no remote
PlainRepo ==
    Repository("main", NoCommit, [b \in {"main"} |-> A1], <<>>, <<>>, {}, {}, {})

\* The tool operations not in use
ToolsIdle ==
    /\ repos = [r \in RepoRoots |-> PlainRepo]
    /\ server = [b \in {"main"} |-> A1]
    /\ token = None
    /\ nextSha = 4
    /\ gitCalls = <<>>
    /\ gitStderr = None
    /\ treeDiff = <<>>
    /\ parents = <<>>
    /\ result = NoResult
    /\ ops = 0

InitHandle ==
    /\ ClassifyIdle
    /\ ToolsIdle
    /\ cwd \in Dirs
    /\ repo_instance = NoRepo
    /\ opened = 0
    /\ call = NoCall
    /\ prevHandle = NoRepo
    /\ failedSinceReset = FALSE
    /\ threads = NoThreads
    /\ lastWrite = NoRepo

\* repo = get_repo()
GetRepo ==
    /\ get_repo_opens => opened < MaxOpens
    /\ repo_instance' = get_repo_instance
    /\ opened' = IF get_repo_opens THEN opened + 1 ELSE opened
    /\ call' = IF get_repo_raises
               THEN Call("get_repo", "ValueError", NotARepoText(cwd), NoRepo, cwd)
               ELSE Call("get_repo", None, None, repo_instance', cwd)
    /\ failedSinceReset' = (failedSinceReset \/ get_repo_raises)
    /\ UNCHANGED <<cwd, prevHandle, threads, lastWrite, classifyVars, toolVars>>

\* reset_repo()
ResetRepo ==
    /\ repo_instance' = reset_repo_instance
    /\ prevHandle' = IF repo_instance # NoRepo THEN repo_instance ELSE prevHandle
    /\ call' = Call("reset_repo", None, None, NoRepo, cwd)
    /\ failedSinceReset' = FALSE
    /\ UNCHANGED <<cwd, opened, threads, lastWrite, classifyVars, toolVars>>

\* os.chdir(d)
Chdir ==
    /\ \E d \in Dirs \ {cwd} : cwd' = d
    /\ UNCHANGED <<repo_instance, opened, call, prevHandle, failedSinceReset,
                   threads, lastWrite, classifyVars, toolVars>>

NextHandle == GetRepo \/ ResetRepo \/ Chdir

SpecHandle == InitHandle /\ [][NextHandle]_vars

(***************************************************************************)
(* get_repo and reset_repo run by two callers, statement by statement      *)
(***************************************************************************)

\* Calls each caller makes.
MaxCalls == 2

InitThreads ==
    /\ ClassifyIdle
    /\ ToolsIdle
    /\ cwd \in Dirs
    /\ repo_instance = NoRepo
    /\ opened = 0
    /\ call = NoCall
    /\ prevHandle = NoRepo
    /\ failedSinceReset = FALSE
    /\ threads = NoThreads
    /\ lastWrite = NoRepo

\* Caller t moves on, the singleton left alone
Step(t, th) ==
    /\ threads' = [threads EXCEPT ![t] = th]
    /\ UNCHANGED <<cwd, call, prevHandle, failedSinceReset, classifyVars, toolVars>>

\* caller t enters get_repo() or reset_repo()
Enter(t) ==
    /\ threads[t].pc \in {"idle", "done"}
    /\ threads[t].calls < MaxCalls
    /\ \E op \in {"get_repo", "reset_repo"} :
          Step(t, Thread(op, IF op = "get_repo" THEN "test" ELSE "clear",
                         NoRepo, None, NoRepo, threads[t].calls + 1))
    /\ UNCHANGED <<repo_instance, opened, lastWrite>>

\* if _repo_instance is None:
GetRepoTest(t) ==
    /\ threads[t].pc = "test"
    /\ Step(t, [threads[t] EXCEPT !.pc = IF repo_instance = NoRepo THEN "open" ELSE "return"])
    /\ UNCHANGED <<repo_instance, opened, lastWrite>>

\* Repo(cwd, search_parent_directories=True), the ValueError raised in
\* place of its InvalidGitRepositoryError
GetRepoOpen(t) ==
    /\ threads[t].pc = "open"
    /\ opened' = opened + 1
    /\ IF Discover(cwd) = None
       THEN Step(t, [threads[t] EXCEPT !.pc = "done", !.raised = "ValueError"])
       ELSE Step(t, [threads[t] EXCEPT !.pc = "store",
                                       !.made = Handle(opened + 1, Discover(cwd))])
    /\ UNCHANGED <<repo_instance, lastWrite>>

\* _repo_instance = <the Repo constructed>
GetRepoStore(t) ==
    /\ threads[t].pc = "store"
    /\ repo_instance' = threads[t].made
    /\ lastWrite' = threads[t].made
    /\ Step(t, [threads[t] EXCEPT !.pc = "return"])
    /\ UNCHANGED opened

\* return _repo_instance
GetRepoReturn(t) ==
    /\ threads[t].pc = "return"
    /\ Step(t, [threads[t] EXCEPT !.pc = "done", !.ret = repo_instance])
    /\ UNCHANGED <<repo_instance, opened, lastWrite>>

\* reset_repo(): _repo_instance = None
ResetRepoStore(t) ==
    /\ threads[t].pc = "clear"
    /\ repo_instance' = NoRepo
    /\ lastWrite' = NoRepo
    /\ Step(t, [threads[t] EXCEPT !.pc = "done"])
    /\ UNCHANGED opened

NextThreads ==
    \E t \in ThreadIds :
       \/ Enter(t)
       \/ GetRepoTest(t)
       \/ GetRepoOpen(t)
       \/ GetRepoStore(t)
       \/ GetRepoReturn(t)
       \/ ResetRepoStore(t)

SpecThreads == InitThreads /\ [][NextThreads]_vars

(***************************************************************************)
(* utils/git_client.py: helpers of the tool operations                     *)
(***************************************************************************)

DetachedHeadText == "Cannot operate in detached HEAD state. Checkout a branch first."

\* Mutant: no check of repo.head.is_detached
get_current_branch_never_raises(R) == FALSE

\* Mutant: the detached HEAD refused only on a dirty working tree
get_current_branch_raises_when_dirty(R) == is_detached(R) /\ is_dirty(R)

\* get_current_branch(repo): does it raise
get_current_branch_raises(R) == is_detached(R)

\* get_current_branch(repo): repo.active_branch.name
get_current_branch(R) == R.head

\* Mutant: the token is handed out for every configured remote.
get_remote_url_with_auth_any_host(R, remote) ==
    IF token = None \/ token = "" THEN None
    ELSE IF remote \notin DOMAIN R.remotes THEN None
    ELSE Replace(R.remotes[remote], "https://", "https://" \o token \o "@")

\* get_remote_url_with_auth(repo, remote)
get_remote_url_with_auth(R, remote) ==
    IF token = None \/ token = "" THEN None
    ELSE IF remote \notin DOMAIN R.remotes THEN None    \* repo.remote raises: except Exception
    ELSE LET url == R.remotes[remote] IN
         IF Contains("github.com", url) THEN
             IF StartsWith(url, "https://")
             THEN Replace(url, "https://", "https://" \o token \o "@")
             ELSE IF StartsWith(url, "git@github.com:")
             THEN "https://" \o token \o "@github.com/" \o Replace(url, "git@github.com:", "")
             ELSE None
         ELSE None

\* Mutant: the branch checked out taken as the primary branch
get_main_branch_name_current(R) == R.head

\* get_main_branch_name(repo)
get_main_branch_name(R) ==
    IF "main" \in DOMAIN R.heads THEN "main"
    ELSE IF "master" \in DOMAIN R.heads THEN "master"
    ELSE "master"

\* branch_exists(repo, branch_name)
branch_exists(R, branch_name) == branch_name \in DOMAIN R.heads

\* The characters \s of the patterns, and those str.strip() removes
Whitespace == " \t\n\r"

\* Mutant: no check of the substring ".."
validate_branch_name_dots_allowed(branch_name) ==
    IF branch_name = "" \/ OnlyCharsOf(branch_name, Whitespace)
    THEN "Branch name cannot be empty"
    ELSE IF HasCharOf(branch_name, Whitespace \o "~^:?*[]\\")
    THEN "Invalid branch name: " \o branch_name
    ELSE None

\* validate_branch_name(branch_name): the text of the ValueError, None when valid
validate_branch_name(branch_name) ==
    IF branch_name = "" \/ OnlyCharsOf(branch_name, Whitespace)
    THEN "Branch name cannot be empty"
    ELSE IF \/ HasCharOf(branch_name, Whitespace \o "~^:?*[]\\")
            \/ Contains("..", branch_name)
    THEN "Invalid branch name: " \o branch_name \o ". "
         \o "Cannot contain spaces or special characters (~, ^, :, ?, *, [, ], \\, ..)"
    ELSE None

\* re.match(r"^[a-z0-9]+(-[a-z0-9]+)*$", description); $ also matches just
\* before a newline that ends the string
description_matches(description) ==
    LET n == Len(description)
        core == IF n > 0 /\ SubSeq(description, n, n) = "\n"
                THEN SubSeq(description, 1, n - 1) ELSE description
    IN  /\ Len(core) > 0
        /\ OnlyCharsOf(core, LowerChars \o Digits \o "-")
        /\ SubSeq(core, 1, 1) # "-"
        /\ SubSeq(core, Len(core), Len(core)) # "-"
        /\ ~Contains("--", core)

\* validate_description(description): the text of the ValueError, None when valid
validate_description(description) ==
    IF description_matches(description) THEN None
    ELSE "Description must be lowercase with hyphens (e.g. 'add-feature'). Got: "
         \o description

(***************************************************************************)
(* utils/errors.py                                                         *)
(***************************************************************************)

\* The exception classes that reach the classifier, each with its base class.
\* WorkTreeRepositoryUnsupported derives from InvalidGitRepositoryError and
\* UnicodeError from ValueError; every other class derives from Exception.
ExcClasses ==
    { "InvalidGitRepositoryError", "WorkTreeRepositoryUnsupported",
      "GitCommandError", "ValueError", "UnicodeError",
      "RuntimeError", "TypeError", "Exception" }

BaseClass(c) ==
    CASE c = "WorkTreeRepositoryUnsupported" -> "InvalidGitRepositoryError"
      [] c = "UnicodeError"                  -> "ValueError"
      [] OTHER                               -> "Exception"

\* isinstance(e, cls)
IsInstance(e, cls) ==
    \/ e.cls = cls
    \/ BaseClass(e.cls) = cls
    \/ cls = "Exception"

\* str(e): the exception's text; an exception built from None prints "None"
Str(e) == IF e.msg = None THEN "None" ELSE e.msg

\* The fixed records of the keyword branches (errors.py 74-130)
AuthFailedError ==
    GitError("auth_failed", "Git authentication failed",
             "Check your git credentials. For HTTPS, verify your personal access token. "
             \o "For SSH, ensure your SSH key is configured correctly.",
             "git config --list | grep credential")

MergeConflictError ==
    GitError("merge_conflict", "Merge conflict detected",
             "Resolve merge conflicts in affected files, "
             \o "then stage and commit the resolution.",
             "git status")

DetachedHeadError ==
    GitError("detached_head", "Repository is in detached HEAD state",
             "Create a new branch or checkout an existing branch to continue.",
             "git checkout -b new-branch-name")

NothingToCommitError ==
    GitError("nothing_to_commit", "No changes to commit",
             "Make changes to files before committing, "
             \o "or use 'git status' to see current state.",
             "git status")

NoRemoteError ==
    GitError("no_remote", "No remote repository configured",
             "Set up a remote repository or specify the remote branch when pushing. "
             \o "Use 'git remote add origin <url>' to add a remote.",
             "git remote -v")

\* Mutant: the merge-conflict keywords are tested before the authentication ones.
command_error_conflict_first(e) ==
    IF \/ Contains("conflict", Lower(Str(e)))
       \/ Contains("merge", Lower(Str(e))) THEN MergeConflictError
    ELSE IF \/ Contains("authentication failed", Lower(Str(e)))
            \/ Contains("permission denied", Lower(Str(e))) THEN AuthFailedError
    ELSE IF Contains("detached head", Lower(Str(e))) THEN DetachedHeadError
    ELSE IF Contains("nothing to commit", Lower(Str(e))) THEN NothingToCommitError
    ELSE IF \/ Contains("no configured push destination", Lower(Str(e)))
            \/ Contains("no upstream branch", Lower(Str(e))) THEN NoRemoteError
    ELSE
        GitError("git_command_failed", "Git command failed: " \o Str(e),
                 "Check the error message above for details. "
                 \o "Run 'git status' to see repository state.",
                 "git status")

\* The body of `if isinstance(e, GitCommandError):` -- the keyword chain
command_error(e) ==
    IF \/ Contains("authentication failed", Lower(Str(e)))
       \/ Contains("permission denied", Lower(Str(e))) THEN AuthFailedError
    ELSE IF \/ Contains("conflict", Lower(Str(e)))
            \/ Contains("merge", Lower(Str(e))) THEN MergeConflictError
    ELSE IF Contains("detached head", Lower(Str(e))) THEN DetachedHeadError
    ELSE IF Contains("nothing to commit", Lower(Str(e))) THEN NothingToCommitError
    ELSE IF \/ Contains("no configured push destination", Lower(Str(e)))
            \/ Contains("no upstream branch", Lower(Str(e))) THEN NoRemoteError
    ELSE
        GitError("git_command_failed", "Git command failed: " \o Str(e),
                 "Check the error message above for details. "
                 \o "Run 'git status' to see repository state.",
                 "git status")

NotARepoError(e) ==
    GitError("not_a_repo", Str(e),
             "Navigate to a git repository before running git commands.",
             "git status")

ValidationError(e) ==
    GitError("validation_error", Str(e),
             "Check the error message and verify your input parameters.",
             None)

UnknownError(e) ==
    GitError("unknown_error", "Unexpected error: " \o Str(e),
             "Check the error message above. If the issue persists, please report it.",
             "git status")

\* Mutant: the keyword chain is applied to every error that is not a
\* repository-not-found error, whatever its class.
handle_git_error_keywords_any_class(e) ==
    IF IsInstance(e, "InvalidGitRepositoryError") THEN NotARepoError(e)
    ELSE IF command_error(e).error_type # "git_command_failed" THEN command_error(e)
    ELSE IF IsInstance(e, "GitCommandError") THEN command_error(e)
    ELSE IF IsInstance(e, "ValueError") THEN ValidationError(e)
    ELSE UnknownError(e)

\* Mutant: the validation branch carries the default command "git status".
handle_git_error_validation_command(e) ==
    IF IsInstance(e, "InvalidGitRepositoryError") THEN NotARepoError(e)
    ELSE IF IsInstance(e, "GitCommandError") THEN command_error(e)
    ELSE IF IsInstance(e, "ValueError") THEN
        [ValidationError(e) EXCEPT !.command = "git status"]
    ELSE UnknownError(e)

\* Mutant: a ValueError whose text speaks of a missing repository is taken
\* for the library's error
handle_git_error_by_text(e) ==
    IF IsInstance(e, "InvalidGitRepositoryError")
       \/ (IsInstance(e, "ValueError") /\ StartsWith(Str(e), "Not a git repository"))
    THEN NotARepoError(e)
    ELSE IF IsInstance(e, "GitCommandError") THEN command_error(e)
    ELSE IF IsInstance(e, "ValueError") THEN ValidationError(e)
    ELSE UnknownError(e)

handle_git_error(e) ==
    IF IsInstance(e, "InvalidGitRepositoryError") THEN NotARepoError(e)
    ELSE IF IsInstance(e, "GitCommandError") THEN command_error(e)
    ELSE IF IsInstance(e, "ValueError") THEN ValidationError(e)
    ELSE UnknownError(e)

\* Pieces of error text: the keywords in several spellings, keywords embedded
\* in longer words, near misses and neutral text.
Fragments ==
    { "", "fatal: ", "Authentication failed", "PERMISSION DENIED",
      "CONFLICT (content)", "Automatic merge failed", "unmerged",
      "detached HEAD", "detached  head", "nothing to commit",
      "No configured push destination", "no upstream branch",
      "authentication", "exit code(128)" }

RECURSIVE Texts(_)
Texts(n) ==
    IF n = 0 THEN {""}
    ELSE {t \o f : t \in Texts(n - 1), f \in Fragments}

Exceptions ==
    [cls : ExcClasses, msg : Texts(MaxFragments) \cup {None}]

InitClassify ==
    /\ exc \in Exceptions
    /\ gitError = NoGitError
    /\ gitError2 = NoGitError
    /\ HandleIdle
    /\ ToolsIdle

\* error = handle_git_error(e)
Classify ==
    /\ gitError = NoGitError
    /\ gitError' = handle_git_error(exc)
    /\ UNCHANGED <<exc, gitError2, handleVars, toolVars>>

\* a second call with the same exception object
ClassifyAgain ==
    /\ gitError # NoGitError
    /\ gitError2 = NoGitError
    /\ gitError2' = handle_git_error(exc)
    /\ UNCHANGED <<exc, gitError, handleVars, toolVars>>

NextClassify == Classify \/ ClassifyAgain

SpecClassify == InitClassify /\ [][NextClassify]_vars


(***************************************************************************)
(* The tool operations: common parts                                       *)
(***************************************************************************)

\* Number of tool operations in a behaviour.
MaxOps == 1

\* The operation ends: the singleton as get_repo leaves it, the repository
\* of the handle and the remote as the git calls left them.
Close(diff, stderr, op, args, raised, msg, ret, root, R, srv, calls, shas) ==
    /\ result' = Result(op, args, raised, msg, ret)
    /\ gitStderr' = stderr
    /\ treeDiff' = diff
    /\ repos' = IF root = None THEN repos ELSE [repos EXCEPT ![root] = R]
    /\ server' = srv
    /\ gitCalls' = calls
    /\ nextSha' = nextSha + shas
    /\ ops' = ops + 1
    /\ UNCHANGED <<cwd, token, parents, call, prevHandle, failedSinceReset,
                   threads, lastWrite, classifyVars>>

\* The operation ends having asked for no tree diff
End(stderr, op, args, raised, msg, ret, root, R, srv, calls, shas) ==
    Close(<<>>, stderr, op, args, raised, msg, ret, root, R, srv, calls, shas)

\* The operation ends with no git call failed
Finish(op, args, raised, msg, ret, root, R, srv, calls, shas) ==
    End(None, op, args, raised, msg, ret, root, R, srv, calls, shas)

\* The singleton after the operation's get_repo()
WithGetRepo ==
    /\ repo_instance' = get_repo_instance
    /\ opened' = IF get_repo_opens THEN opened + 1 ELSE opened

\* The operation raises before any git call
Raise(op, args, raised, msg) ==
    Finish(op, args, raised, msg, NoRet, None, PlainRepo, server, <<>>, 0)

\* Failures of the transport, whatever the state of the two repositories
NetworkErrors ==
    { "fatal: Authentication failed for 'https://github.com/user/repo.git/'",
      "fatal: 'origin' does not appear to be a git repository",
      "fatal: unable to access 'https://github.com/user/repo.git/': Could not resolve host" }

\* An entry of repo.commit(a).diff(repo.commit(b)): GitPython reads git's raw
\* diff with rename detection, which names both paths of every entry; they
\* differ for a rename (R) and a copy (C)
Diff(change_type, a_path, b_path) ==
    [change_type |-> change_type, a_path |-> a_path, b_path |-> b_path]

\* The tree diffs between two commits tried
TreeDiffs ==
    { <<>>,
      <<Diff("M", "a.txt", "a.txt")>>,
      <<Diff("A", "new.txt", "new.txt"), Diff("M", "a.txt", "a.txt")>>,
      <<Diff("D", "a.txt", "a.txt")>>,
      <<Diff("R", "old.txt", "new.txt")>>,
      <<Diff("C", "a.txt", "copy.txt"), Diff("M", "a.txt", "a.txt")>> }

\* Python's x or y on two paths
PathOr(x, y) == IF x # None /\ x # "" THEN x ELSE y

\* list({d.a_path or d.b_path for d in diff if d.a_path or d.b_path}): the
\* list is made from a set, so it is kept as the set
files_changed(diff) ==
    {PathOr(diff[i].a_path, diff[i].b_path) :
        i \in {j \in DOMAIN diff : PathOr(diff[j].a_path, diff[j].b_path) \notin {None, ""}}}

ConflictText ==
    "CONFLICT (content): Merge conflict in a.txt\n"
    \o "Automatic merge failed; fix conflicts and then commit the result."

\* The merge of commit theirs into HEAD: nothing to do, a fast-forward, a
\* merge commit, or a conflict that leaves the merge in progress.
MergeOutcomes(R, theirs) ==
    LET ours == HeadCommit(R) IN
    IF theirs.hist \subseteq ours.hist THEN {Outcome(None, R, server, 0)}
    ELSE IF ours.hist \subseteq theirs.hist
    THEN {Outcome(None, MoveHead(R, theirs), server, 0)}
    ELSE {Outcome(None,
                  MoveHead(R, Commit(nextSha, ours.hist \cup theirs.hist \cup {nextSha})),
                  server, 1) : x \in {y \in {1} : nextSha <= MaxSha}}
         \cup {Outcome(ConflictText,
                       [R EXCEPT !.inProgress = "merge", !.modified = {"a.txt"}],
                       server, 0)}

\* repo.git.pull(source, branch, "--no-edit"); tracked is the remote-tracking
\* branch the fetch updates, None when the source is a URL
PullOutcomes(R, tracked, branch) ==
    {Outcome(e, R, server, 0) : e \in NetworkErrors}
    \cup
    IF branch \notin DOMAIN server
    THEN {Outcome("fatal: couldn't find remote ref " \o branch, R, server, 0)}
    ELSE LET fetched == IF tracked = None THEN R
                        ELSE [R EXCEPT !.tracking = Put(R.tracking, tracked, server[branch])]
         IN  MergeOutcomes(fetched, server[branch])

(***************************************************************************)
(* tools/remote.py: git_pull                                               *)
(***************************************************************************)

\* The ValueError git_pull makes of a GitCommandError
pull_error_text(e, remote, target_branch) ==
    LET error_str == Lower(e) IN
    IF \/ Contains("authentication failed", error_str)
       \/ Contains("permission denied", error_str)
    THEN "Authentication failed. Ensure GITHUB_TOKEN is set in environment, "
         \o "or configure git credentials."
    ELSE IF Contains("conflict", error_str) \/ Contains("merge", error_str)
    THEN "Merge conflict detected. Resolve conflicts manually, "
         \o "then stage and commit the resolution."
    ELSE IF Contains("does not appear to be a git repository", error_str)
    THEN "Remote '" \o remote \o "' is not a valid git repository."
    ELSE IF Contains("couldn't find remote ref", error_str)
    THEN "Branch '" \o target_branch \o "' does not exist on remote '" \o remote \o "'."
    ELSE "Pull failed: " \o e

DirtyPullText == "Cannot pull with uncommitted changes. Commit or stash changes first."

git_pull(remote, branch) ==
    LET args == [remote |-> remote, branch |-> branch] IN
    /\ WithGetRepo
    /\ IF get_repo_raises
       THEN Raise("git_pull", args, "ValueError", NotARepoText(cwd))
       ELSE
       LET root == get_repo_instance.root
           R == repos[root]
       IN
       IF branch = None /\ get_current_branch_raises(R)
       THEN Raise("git_pull", args, "ValueError", DetachedHeadText)
       ELSE
       LET target_branch == IF branch # None THEN branch ELSE get_current_branch(R) IN
       IF remote \notin DOMAIN R.remotes
       THEN Raise("git_pull", args, "ValueError",
                  "Remote '" \o remote \o "' not found. Use 'git remote add' first.")
       ELSE
       LET sha_before == HeadCommit(R) IN
       IF is_dirty(R)
       THEN Raise("git_pull", args, "ValueError", DirtyPullText)
       ELSE
       LET auth_url == get_remote_url_with_auth(R, remote)
           source == IF auth_url # None THEN auth_url ELSE remote
           tracked == IF auth_url # None THEN None ELSE remote \o "/" \o target_branch
           cmdline == "git pull " \o source \o " " \o target_branch \o " --no-edit"
       IN
       \E o \in PullOutcomes(R, tracked, target_branch) :
          IF o.stderr # None
          THEN End(o.stderr, "git_pull", args, "ValueError",
                      pull_error_text(GitCommandErrorText(cmdline, o.stderr),
                                      remote, target_branch),
                      NoRet, root, o.repo, o.server, <<cmdline>>, o.used)
          ELSE
          LET sha_after == HeadCommit(o.repo) IN
          \E diff \in IF sha_before.sha = sha_after.sha THEN {<<>>} ELSE TreeDiffs :
          Close(diff, None, "git_pull", args, None, None,
                [branch |-> target_branch,
                 remote |-> remote,
                 sha_before |-> sha_before.sha,
                 sha_after |-> sha_after.sha,
                 commits_pulled |-> IF sha_before.sha = sha_after.sha THEN 0
                                    ELSE Cardinality(Range(sha_before, sha_after)),
                 files_changed |-> files_changed(diff),
                 up_to_date |-> (sha_before.sha = sha_after.sha)],
                root, o.repo, o.server, <<cmdline>>, o.used)

RemoteArgs == {"origin", "backup"}

GitPull ==
    /\ ops < MaxOps
    /\ \E remote \in RemoteArgs, branch \in {None, "main", "gone"} :
          git_pull(remote, branch)

(***************************************************************************)
(* tools/remote.py: git_push                                               *)
(***************************************************************************)

\* Mutant: the commits on either side counted as ahead
commits_ahead_either_side(R, branch, remote) ==
    LET remote_ref == remote \o "/" \o branch IN
    IF branch \in DOMAIN R.heads /\ remote_ref \in DOMAIN R.tracking
    THEN Cardinality(Range(R.tracking[remote_ref], R.heads[branch])
                     \cup Range(R.heads[branch], R.tracking[remote_ref]))
    ELSE 0

\* _count_commits_ahead_behind(repo, branch, remote)[0]; iter_commits raises
\* on an unknown ref: except Exception gives (0, 0)
commits_ahead(R, branch, remote) ==
    LET remote_ref == remote \o "/" \o branch IN
    IF branch \in DOMAIN R.heads /\ remote_ref \in DOMAIN R.tracking
    THEN Cardinality(Range(R.tracking[remote_ref], R.heads[branch]))
    ELSE 0

\* _count_commits_ahead_behind(repo, branch, remote)[1]
commits_behind(R, branch, remote) ==
    LET remote_ref == remote \o "/" \o branch IN
    IF branch \in DOMAIN R.heads /\ remote_ref \in DOMAIN R.tracking
    THEN Cardinality(Range(R.heads[branch], R.tracking[remote_ref]))
    ELSE 0

\* repo.git.push(*push_args): the remote takes the branch, or rejects it when
\* it holds commits the branch lacks and the push is not forced; u is the
\* -u flag, which records the pushed-to branch as the upstream
PushOutcomes(R, tracked, branch, force, u) ==
    {Outcome(e, R, server, 0) : e \in NetworkErrors}
    \cup
    IF branch \notin DOMAIN R.heads
    THEN {Outcome("error: src refspec " \o branch \o " does not match any", R, server, 0)}
    ELSE IF /\ branch \in DOMAIN server
            /\ ~(server[branch].hist \subseteq R.heads[branch].hist)
            /\ ~force
    THEN {Outcome("! [rejected] " \o branch \o " -> " \o branch \o " (non-fast-forward)\n"
                  \o "error: failed to push some refs", R, server, 0)}
    ELSE {Outcome(None,
                  IF tracked = None THEN R
                  ELSE [R EXCEPT !.tracking = Put(R.tracking, tracked, R.heads[branch]),
                                 !.upstream = IF u THEN Put(R.upstream, branch, tracked)
                                              ELSE R.upstream],
                  Put(server, branch, R.heads[branch]), 0)}

\* The ValueError git_push makes of a GitCommandError
push_error_text(e, remote) ==
    LET error_str == Lower(e) IN
    IF \/ Contains("authentication failed", error_str)
       \/ Contains("permission denied", error_str)
    THEN "Authentication failed. Ensure GITHUB_TOKEN is set in environment, "
         \o "or configure git credentials."
    ELSE IF Contains("rejected", error_str) /\ Contains("non-fast-forward", error_str)
    THEN "Push rejected: Remote has changes not in local branch. "
         \o "Pull first with 'git_pull()', or use force=True (caution!)."
    ELSE IF Contains("does not appear to be a git repository", error_str)
    THEN "Remote '" \o remote \o "' is not a valid git repository."
    ELSE "Push failed: " \o e

git_push(remote, branch, set_upstream, force) ==
    LET args == [remote |-> remote, branch |-> branch,
                 set_upstream |-> set_upstream, force |-> force] IN
    /\ WithGetRepo
    /\ IF get_repo_raises
       THEN Raise("git_push", args, "ValueError", NotARepoText(cwd))
       ELSE
       LET root == get_repo_instance.root
           R == repos[root]
       IN
       IF branch = None /\ get_current_branch_raises(R)
       THEN Raise("git_push", args, "ValueError", DetachedHeadText)
       ELSE
       LET target_branch == IF branch # None THEN branch ELSE get_current_branch(R) IN
       IF remote \notin DOMAIN R.remotes
       THEN Raise("git_push", args, "ValueError",
                  "Remote '" \o remote \o "' not found. Use 'git remote add' first.")
       ELSE
       LET is_new_branch == (remote \o "/" \o target_branch) \notin DOMAIN R.tracking
           ahead == commits_ahead(R, target_branch, remote)
           sha == HeadCommit(R).sha
           auth_url == get_remote_url_with_auth(R, remote)
           source == IF auth_url # None THEN auth_url ELSE remote
           tracked == IF auth_url # None THEN None ELSE remote \o "/" \o target_branch
           cmdline == "git push"
                      \o (IF set_upstream /\ is_new_branch THEN " -u" ELSE "")
                      \o (IF force THEN " --force" ELSE "")
                      \o " " \o source \o " " \o target_branch
       IN
       \E o \in PushOutcomes(R, tracked, target_branch, force,
                              set_upstream /\ is_new_branch) :
          IF o.stderr # None
          THEN End(o.stderr, "git_push", args, "ValueError",
                      push_error_text(GitCommandErrorText(cmdline, o.stderr), remote),
                      NoRet, root, o.repo, o.server, <<cmdline>>, 0)
          ELSE Finish("git_push", args, None, None,
                      [branch |-> target_branch, remote |-> remote, sha |-> sha,
                       commits_pushed |-> IF ~is_new_branch THEN ahead ELSE 1,
                       is_new_branch |-> is_new_branch, force |-> force],
                      root, o.repo, o.server, <<cmdline>>, 0)

GitPush ==
    /\ ops < MaxOps
    /\ \E remote \in RemoteArgs, branch \in {None, "feat"}, force \in BOOLEAN :
          git_push(remote, branch, ~force, force)

(***************************************************************************)
(* tools/status.py: git_status                                             *)
(***************************************************************************)

\* _get_staged_files(repo): the paths of repo.index.diff("HEAD"); none when
\* the diff raises, HEAD naming no commit yet
get_staged_files(R) ==
    IF is_detached(R) \/ R.head \in DOMAIN R.heads THEN R.staged ELSE {}

\* _get_modified_files(repo): the paths of repo.index.diff(None)
get_modified_files(R) == R.modified

git_status ==
    /\ WithGetRepo
    /\ IF get_repo_raises
       THEN Raise("git_status", NoArgs, "ValueError", NotARepoText(cwd))
       ELSE
       LET root == get_repo_instance.root
           R == repos[root]
       IN
       IF is_detached(R)
       THEN Raise("git_status", NoArgs, "ValueError", "Repository is in detached HEAD state")
       ELSE
       LET branch_name == R.head
           \* _get_tracking_info: repo.active_branch.tracking_branch()
           tracked == IF branch_name \in DOMAIN R.upstream
                      THEN R.upstream[branch_name] ELSE None
           known == tracked # None /\ tracked \in DOMAIN R.tracking
       IN
       Finish("git_status", NoArgs, None, None,
              [branch |-> branch_name,
               tracking |-> tracked,
               ahead |-> IF known
                         THEN Cardinality(Range(R.tracking[tracked], R.heads[branch_name]))
                         ELSE 0,
               behind |-> IF known
                          THEN Cardinality(Range(R.heads[branch_name], R.tracking[tracked]))
                          ELSE 0,
               staged |-> get_staged_files(R),
               modified |-> get_modified_files(R),
               untracked |-> R.untracked,
               clean |-> (/\ Cardinality(get_staged_files(R)) = 0
                          /\ Cardinality(get_modified_files(R)) = 0
                          /\ Cardinality(R.untracked) = 0)],
              root, R, server, <<>>, 0)

GitStatus ==
    /\ ops < MaxOps
    /\ git_status

(***************************************************************************)
(* tools/commit.py: git_commit                                             *)
(***************************************************************************)

VALID_COMMIT_TYPES ==
    <<"feat", "fix", "docs", "style", "refactor", "perf", "test", "build",
      "ci", "chore", "revert", "merge">>

\* ", ".join(items)
Join(items) ==
    LET RECURSIVE join(_)
        join(i) == IF i > Len(items) THEN ""
                   ELSE (IF i > 1 THEN ", " ELSE "") \o items[i] \o join(i + 1)
    IN  join(1)

\* _validate_commit_type(commit_type): the text of the ValueError, None when valid
validate_commit_type(commit_type) ==
    IF \E i \in DOMAIN VALID_COMMIT_TYPES : VALID_COMMIT_TYPES[i] = commit_type
    THEN None
    ELSE "Invalid commit type: " \o commit_type \o ". "
         \o "Valid types: " \o Join(VALID_COMMIT_TYPES)

\* _validate_message(message): the text of the ValueError, None when valid
validate_message(message) ==
    IF message = "" \/ OnlyCharsOf(message, Whitespace)
    THEN "Commit message cannot be empty"
    ELSE None

\* Mutant: the subject line alone
build_commit_message_subject_only(commit_type, message) ==
    commit_type \o ": " \o message

\* _build_commit_message(commit_type, message); the first attribution line
\* opens with the robot emoji U+1F916, written here as its code point
build_commit_message(commit_type, message) ==
    commit_type \o ": " \o message \o "\n"
    \o "\n"
    \o "U+1F916 Generated with [Claude Code](https://claude.com/claude-code)\n"
    \o "\n"
    \o "Co-Authored-By: Claude <noreply@anthropic.com>"

\* The files every commit of the modelled repositories holds
TrackedFiles == {"a.txt"}

\* (repo_path / file_path).exists(): a file of the checked-out commits or one
\* written since
file_exists(R, file_path) ==
    file_path \in TrackedFiles \cup UNION {R.log[c].files : c \in DOMAIN R.log}
                   \cup R.staged \cup R.modified \cup R.untracked

\* Mutant: no file is looked up
validate_files_exist_skipped(R, files) == None

\* _validate_files_exist(repo, files): the text of the ValueError for the
\* first file that is missing, None when all exist
validate_files_exist(R, files) ==
    IF \A i \in DOMAIN files : file_exists(R, files[i]) THEN None
    ELSE LET first == CHOOSE i \in DOMAIN files :
                         /\ ~file_exists(R, files[i])
                         /\ \A j \in 1..(i - 1) : file_exists(R, files[j])
         IN  "File not found: " \o files[first]

\* repo.index.add(files), or repo.git.add(A=True) followed by
\* repo.index.add(repo.untracked_files) when no files are given
Staged(R, files) ==
    IF Len(files) > 0
    THEN LET S == {files[i] : i \in DOMAIN files} IN
         [R EXCEPT !.staged = R.staged \cup (S \cap (R.modified \cup R.untracked)),
                   !.modified = R.modified \ S,
                   !.untracked = R.untracked \ S]
    ELSE [R EXCEPT !.staged = R.staged \cup R.modified \cup R.untracked,
                   !.modified = {},
                   !.untracked = {}]

\* Mutant: the commit leaves the staged changes pending
Committed_index_kept(R, message) ==
    LET c == Commit(nextSha, HeadCommit(R).hist \cup {nextSha}) IN
    [MoveHead(R, c) EXCEPT !.log = Put(R.log, nextSha,
                                       [message |-> message, files |-> R.staged])]

\* repo.index.commit(message): a commit of the index on top of HEAD, made
\* whether or not the index differs from HEAD
Committed(R, message) ==
    LET c == Commit(nextSha, HeadCommit(R).hist \cup {nextSha}) IN
    [MoveHead(R, c) EXCEPT !.staged = {},
                           !.log = Put(R.log, nextSha,
                                       [message |-> message, files |-> R.staged])]

IndexLockedText == "fatal: Unable to create '.git/index.lock': File exists."

\* files is the list given; the empty list stands for None as well, the code
\* testing only "if files"
git_commit(type, message, files, skip_hooks) ==
    LET args == [type |-> type, message |-> message, files |-> files,
                 skip_hooks |-> skip_hooks]
        root == Discover(cwd)
    IN
    /\ UNCHANGED <<repo_instance, opened>>
    /\ IF validate_commit_type(type) # None
       THEN Raise("git_commit", args, "ValueError", validate_commit_type(type))
       ELSE IF validate_message(message) # None
       THEN Raise("git_commit", args, "ValueError", validate_message(message))
       ELSE IF root = None
       THEN \* Repo(P.cwd(), search_parent_directories=True) outside a repository
            Raise("git_commit", args, "InvalidGitRepositoryError", cwd)
       ELSE
       LET R == repos[root] IN
       IF Len(files) > 0 /\ validate_files_exist(R, files) # None
       THEN Raise("git_commit", args, "ValueError", validate_files_exist(R, files))
       ELSE IF ~is_dirty(R)
       THEN Raise("git_commit", args, "ValueError", "No changes to commit")
       ELSE
       LET commit_message == build_commit_message(type, message)
           index == Staged(R, files)
       IN
       \/ /\ nextSha <= MaxSha
          /\ Finish("git_commit", args, None, None,
                    [sha |-> nextSha,
                     stats |-> [files_changed |-> Cardinality(index.staged)],
                     message |-> commit_message],
                    root, Committed(index, commit_message), server,
                    IF Len(files) = 0 THEN <<"git add -A">> ELSE <<>>, 1)
       \/ /\ Len(files) = 0
          /\ End(IndexLockedText, "git_commit", args, "ValueError",
                    "Failed to create commit: "
                    \o GitCommandErrorText("git add -A", IndexLockedText),
                    NoRet, root, R, server, <<"git add -A">>, 0)

GitCommit ==
    /\ ops < MaxOps
    /\ \E type \in {"feat", "wip"}, message \in {"add x", " "},
          files \in {<<>>, <<"a.txt">>, <<"new.txt">>, <<"a.txt", "gone.txt">>} :
          git_commit(type, message, files, FALSE)

(***************************************************************************)
(* tools/branch.py: git_create_branch                                      *)
(***************************************************************************)

\* A git call as run: what it gave and the command lines issued so far
Ran(o, calls) ==
    [stderr |-> o.stderr, repo |-> o.repo, server |-> o.server, used |-> o.used,
     calls |-> calls]

LocalChangesText ==
    "error: Your local changes to the following files would be overwritten by checkout:\n"
    \o "\ta.txt\nPlease commit your changes or stash them before you switch branches.\n"
    \o "Aborting"

\* repo.git.checkout(branch): HEAD moves to the branch; git may refuse when
\* the branch is at another commit and tracked files are changed
CheckoutOutcomes(R, branch) ==
    {Outcome(None, [R EXCEPT !.head = branch], server, 0)}
    \cup
    IF /\ R.staged \cup R.modified # {}
       /\ HeadCommit(R).sha # R.heads[branch].sha
    THEN {Outcome(LocalChangesText, R, server, 0)}
    ELSE {}

\* Names validate_branch_name lets through and git refuses
GitRefusesName(name) ==
    \/ StartsWith(name, "-")
    \/ HasCharOf(name, Whitespace \o "~^:?*[\\")
    \/ Contains("..", name)
    \/ (Len(name) >= 5 /\ SubSeq(name, Len(name) - 4, Len(name)) = ".lock")

\* repo.git.checkout("-b", target_branch)
NewBranchOutcomes(R, target_branch) ==
    IF R.inProgress # None
    THEN {Outcome("error: you need to resolve your current index first", R, server, 0)}
    ELSE IF GitRefusesName(target_branch)
    THEN {Outcome("fatal: '" \o target_branch \o "' is not a valid branch name", R, server, 0)}
    ELSE {Outcome(None,
                  [R EXCEPT !.heads = Put(R.heads, target_branch, HeadCommit(R)),
                            !.head = target_branch],
                  server, 0)}

\* The try block of git_create_branch: checkout of the base, the pull whose
\* GitCommandError is swallowed, and checkout -b
CreateBranchOutcomes(R, base_branch, pull_latest, target_branch) ==
    LET co == "git checkout " \o (IF base_branch = None THEN "" ELSE base_branch)
        pl == "git pull origin " \o (IF base_branch = None THEN "" ELSE base_branch)
        nb == "git checkout -b " \o target_branch
        afterCheckout ==
            IF base_branch = None THEN {Ran(Outcome(None, R, server, 0), <<>>)}
            ELSE {Ran(o, <<co>>) : o \in CheckoutOutcomes(R, base_branch)}
        afterPull(o) ==
            IF o.stderr # None THEN {o}
            ELSE IF base_branch # None /\ pull_latest /\ DOMAIN o.repo.remotes # {}
            THEN {Ran(Outcome(None, p.repo, p.server, p.used), o.calls \o <<pl>>) :
                    p \in IF "origin" \in DOMAIN o.repo.remotes
                          THEN PullOutcomes(o.repo, "origin/" \o base_branch, base_branch)
                          ELSE {Outcome("fatal: 'origin' does not appear to be a git repository",
                                        o.repo, server, 0)}}
            ELSE {o}
        afterNew(o) ==
            IF o.stderr # None THEN {o}
            ELSE {Ran(Outcome(n.stderr, n.repo, o.server, o.used), o.calls \o <<nb>>) :
                    n \in NewBranchOutcomes(o.repo, target_branch)}
    IN  UNION {UNION {afterNew(p) : p \in afterPull(o)} : o \in afterCheckout}

\* Mutant: the issue number taking precedence over an explicit name
target_branch_name_issue_first(branch_name, issue_number, description) ==
    IF issue_number # {}
    THEN "issue-" \o IntToStr(CHOOSE n \in issue_number : TRUE)
    ELSE IF branch_name # None THEN branch_name
    ELSE "feature-" \o description

\* target_branch as git_create_branch determines it (branch.py 38-56), for a
\* call that gives a name, an issue number or a description
target_branch_name(branch_name, issue_number, description) ==
    IF branch_name # None THEN branch_name
    ELSE IF issue_number # {}
    THEN LET n == CHOOSE n \in issue_number : TRUE IN
         IF description # None /\ description # ""
         THEN "issue-" \o IntToStr(n) \o "-" \o description
         ELSE "issue-" \o IntToStr(n)
    ELSE "feature-" \o description

\* issue_number is the set of the numbers given: empty for None
git_create_branch(branch_name, issue_number, description, from_branch, pull_latest) ==
    LET args == [branch_name |-> branch_name, issue_number |-> issue_number,
                 description |-> description, from_branch |-> from_branch,
                 pull_latest |-> pull_latest] IN
    /\ WithGetRepo
    /\ IF get_repo_raises
       THEN Raise("git_create_branch", args, "ValueError", NotARepoText(cwd))
       ELSE
       LET root == get_repo_instance.root
           R == repos[root]
       IN
       IF is_detached(R)
       THEN \* repo.active_branch on a detached HEAD
            Raise("git_create_branch", args, "TypeError",
                  "HEAD is a detached symbolic reference as it points to '"
                  \o IntToStr(HeadCommit(R).sha) \o "'")
       ELSE
       LET previous_branch == R.head
           explicit == branch_name # None
           auto == ~explicit /\ (issue_number # {} \/ description # None)
           target_branch == target_branch_name(branch_name, issue_number, description)
           base_branch ==
               IF explicit THEN from_branch
               ELSE IF from_branch # None /\ from_branch # "" THEN from_branch
               ELSE get_main_branch_name(R)
           pull == IF auto /\ from_branch = None THEN TRUE ELSE pull_latest
       IN
       IF explicit /\ validate_branch_name(branch_name) # None
       THEN Raise("git_create_branch", args, "ValueError", validate_branch_name(branch_name))
       ELSE IF auto /\ description # None /\ validate_description(description) # None
       THEN Raise("git_create_branch", args, "ValueError", validate_description(description))
       ELSE IF ~explicit /\ ~auto
       THEN Raise("git_create_branch", args, "ValueError",
                  "Provide branch_name OR issue_number/description for auto-naming")
       ELSE IF branch_exists(R, target_branch)
       THEN Raise("git_create_branch", args, "ValueError",
                  "Branch '" \o target_branch \o "' already exists")
       ELSE IF base_branch # None /\ ~branch_exists(R, base_branch)
       THEN Raise("git_create_branch", args, "ValueError",
                  "Branch '" \o base_branch \o "' does not exist")
       ELSE
       \E o \in CreateBranchOutcomes(R, base_branch, pull, target_branch) :
          IF o.stderr # None
          THEN End(o.stderr, "git_create_branch", args, "ValueError",
                      "Failed to create branch '" \o target_branch \o "': "
                      \o GitCommandErrorText(o.calls[Len(o.calls)], o.stderr),
                      NoRet, root, o.repo, o.server, o.calls, o.used)
          ELSE Finish("git_create_branch", args, None, None,
                      [branch_name |-> target_branch,
                       previous_branch |-> previous_branch,
                       sha |-> HeadCommit(o.repo).sha,
                       based_on |-> base_branch],
                      root, o.repo, o.server, o.calls, o.used)

\* The calls of git_create_branch tried
CreateBranchArgs ==
    { [branch_name |-> "new", issue_number |-> {}, description |-> None,
       from_branch |-> None, pull_latest |-> FALSE],
      [branch_name |-> "feat", issue_number |-> {}, description |-> None,
       from_branch |-> None, pull_latest |-> FALSE],
      [branch_name |-> "bad name", issue_number |-> {}, description |-> None,
       from_branch |-> None, pull_latest |-> FALSE],
      [branch_name |-> "x.lock", issue_number |-> {}, description |-> None,
       from_branch |-> None, pull_latest |-> FALSE],
      [branch_name |-> "new", issue_number |-> {7}, description |-> "Bad Desc",
       from_branch |-> "main", pull_latest |-> TRUE],
      [branch_name |-> "new", issue_number |-> {}, description |-> None,
       from_branch |-> "gone", pull_latest |-> FALSE],
      [branch_name |-> None, issue_number |-> {7}, description |-> "fix-bug",
       from_branch |-> None, pull_latest |-> FALSE],
      [branch_name |-> None, issue_number |-> {7}, description |-> None,
       from_branch |-> "feat", pull_latest |-> FALSE],
      [branch_name |-> None, issue_number |-> {}, description |-> "fix-bug\n",
       from_branch |-> None, pull_latest |-> FALSE],
      [branch_name |-> None, issue_number |-> {}, description |-> "Bad Desc",
       from_branch |-> None, pull_latest |-> FALSE],
      [branch_name |-> None, issue_number |-> {}, description |-> None,
       from_branch |-> None, pull_latest |-> TRUE] }

GitCreateBranch ==
    /\ ops < MaxOps
    /\ \E a \in CreateBranchArgs :
          git_create_branch(a.branch_name, a.issue_number, a.description,
                            a.from_branch, a.pull_latest)

(***************************************************************************)
(* tools/sync.py: git_sync_with_main                                       *)
(***************************************************************************)

\* repo.git.fetch(source, main_branch); tracked as for PullOutcomes
FetchOutcomes(R, tracked, branch) ==
    IF "origin" \notin DOMAIN R.remotes
    THEN {Outcome("fatal: 'origin' does not appear to be a git repository", R, server, 0)}
    ELSE {Outcome(e, R, server, 0) : e \in NetworkErrors}
         \cup
         IF branch \notin DOMAIN server
         THEN {Outcome("fatal: couldn't find remote ref " \o branch, R, server, 0)}
         ELSE {Outcome(None,
                       IF tracked = None THEN R
                       ELSE [R EXCEPT !.tracking = Put(R.tracking, tracked, server[branch])],
                       server, 0)}

\* repo.git.merge(ref, "--no-edit")
GitMergeOutcomes(R, ref) ==
    IF ref \notin DOMAIN R.tracking
    THEN {Outcome("merge: " \o ref \o " - not something we can merge", R, server, 0)}
    ELSE MergeOutcomes(R, R.tracking[ref])

\* repo.git.rebase(ref): nothing to do, a fast-forward, the commits of the
\* branch made anew on top of ref, or a conflict that leaves the rebase in
\* progress.
GitRebaseOutcomes(R, ref) ==
    IF ref \notin DOMAIN R.tracking
    THEN {Outcome("fatal: invalid upstream '" \o ref \o "'", R, server, 0)}
    ELSE LET ours == HeadCommit(R)
             theirs == R.tracking[ref]
             k == Cardinality(ours.hist \ theirs.hist)
         IN
         IF theirs.hist \subseteq ours.hist THEN {Outcome(None, R, server, 0)}
         ELSE IF ours.hist \subseteq theirs.hist
         THEN {Outcome(None, MoveHead(R, theirs), server, 0)}
         ELSE {Outcome(None,
                       MoveHead(R, Commit(nextSha + k - 1,
                                          theirs.hist \cup (nextSha..(nextSha + k - 1)))),
                       server, k) : x \in {y \in {1} : nextSha + k - 1 <= MaxSha}}
              \cup {Outcome("CONFLICT (content): Merge conflict in a.txt\n"
                            \o "error: could not apply 3... change",
                            [R EXCEPT !.inProgress = "rebase", !.modified = {"a.txt"}],
                            server, 0)}

\* repo.git.merge("--abort") or repo.git.rebase("--abort") under
\* `except Exception: pass`: the operation in progress is undone, or the
\* abort fails and nothing changes.
AbortOutcomes(R, strategy) ==
    {R} \cup IF R.inProgress = strategy
             THEN {[R EXCEPT !.inProgress = None, !.modified = {}]}
             ELSE {}

\* Mutant: the abort of a merge whatever the strategy
sync_abort_always_merge(strategy) == "git merge --abort"

\* The abort the except branch runs: repo.git.merge("--abort") for strategy
\* merge, repo.git.rebase("--abort") otherwise
sync_abort(strategy) ==
    IF strategy = "merge" THEN "git merge --abort" ELSE "git rebase --abort"

\* Mutant: the commits of the current branch that ref lacks
commits_to_add_reversed(F, current_branch, ref) ==
    Range(F.tracking[ref], F.heads[current_branch])

\* list(repo.iter_commits(f"{current_branch}..origin/{main_branch}")): the
\* commits of ref that the current branch lacks
commits_to_add(F, current_branch, ref) ==
    Range(F.heads[current_branch], F.tracking[ref])

git_sync_with_main(main_branch, strategy) ==
    LET args == [main_branch |-> main_branch, strategy |-> strategy] IN
    IF strategy \notin {"merge", "rebase"}
    THEN /\ Raise("git_sync_with_main", args, "ValueError",
                  "Invalid strategy '" \o strategy \o "'. Must be 'merge' or 'rebase'.")
         /\ UNCHANGED <<repo_instance, opened>>
    ELSE
    /\ WithGetRepo
    /\ IF get_repo_raises
       THEN Raise("git_sync_with_main", args, "ValueError", NotARepoText(cwd))
       ELSE
       LET root == get_repo_instance.root
           R == repos[root]
       IN
       IF get_current_branch_raises(R)
       THEN Raise("git_sync_with_main", args, "ValueError", DetachedHeadText)
       ELSE
       LET current_branch == get_current_branch(R) IN
       IF current_branch = main_branch
       THEN Raise("git_sync_with_main", args, "ValueError",
                  "Already on '" \o main_branch \o "' branch. "
                  \o "Use git_pull() instead, or checkout a feature branch first.")
       ELSE IF is_dirty(R)
       THEN Raise("git_sync_with_main", args, "ValueError",
                  "Cannot sync with uncommitted changes. Commit or stash changes first.")
       ELSE
       LET sha_before == HeadCommit(R)
           auth_url == get_remote_url_with_auth(R, "origin")
           source == IF auth_url # None THEN auth_url ELSE "origin"
           tracked == IF auth_url # None THEN None ELSE "origin/" \o main_branch
           fetch == "git fetch " \o source \o " " \o main_branch
           ref == "origin/" \o main_branch
           sync == IF strategy = "merge" THEN "git merge " \o ref \o " --no-edit"
                   ELSE "git rebase " \o ref
           abort == sync_abort(strategy)
       IN
       \E f \in FetchOutcomes(R, tracked, main_branch) :
          IF f.stderr # None
          THEN End(f.stderr, "git_sync_with_main", args, "ValueError",
                      "Failed to fetch from origin: "
                      \o GitCommandErrorText(fetch, f.stderr),
                      NoRet, root, f.repo, f.server, <<fetch>>, 0)
          ELSE
          LET F == f.repo
              \* iter_commits raises on an unknown ref: except Exception
              counted == ref \in DOMAIN F.tracking
              commits_added == IF counted
                               THEN Cardinality(commits_to_add(F, current_branch, ref))
                               ELSE 0
          IN
          IF counted /\ commits_added = 0
          THEN Finish("git_sync_with_main", args, None, None,
                      [branch |-> current_branch, main_branch |-> main_branch,
                       strategy |-> strategy,
                       sha_before |-> sha_before.sha, sha_after |-> sha_before.sha,
                       commits_added |-> 0, up_to_date |-> TRUE, files_changed |-> {}],
                      root, F, f.server, <<fetch>>, 0)
          ELSE
          \E o \in IF strategy = "merge" THEN GitMergeOutcomes(F, ref)
                   ELSE GitRebaseOutcomes(F, ref) :
             IF o.stderr # None
             THEN LET error_str == Lower(GitCommandErrorText(sync, o.stderr)) IN
                  IF Contains("conflict", error_str) \/ Contains("merge", error_str)
                  THEN \E aborted \in AbortOutcomes(o.repo, strategy) :
                          End(o.stderr, "git_sync_with_main", args, "ValueError",
                                 (IF strategy = "merge" THEN "Merge" ELSE "Rebase")
                                 \o " conflict detected. Resolve conflicts manually, "
                                 \o "then stage and commit the resolution.",
                                 NoRet, root, aborted, o.server, <<fetch, sync, abort>>, 0)
                  ELSE End(o.stderr, "git_sync_with_main", args, "ValueError",
                              "Sync failed: " \o GitCommandErrorText(sync, o.stderr),
                              NoRet, root, o.repo, o.server, <<fetch, sync>>, 0)
             ELSE
             LET sha_after == HeadCommit(o.repo) IN
             \E diff \in IF sha_before.sha = sha_after.sha THEN {<<>>} ELSE TreeDiffs :
             Close(diff, None, "git_sync_with_main", args, None, None,
                   [branch |-> current_branch, main_branch |-> main_branch,
                    strategy |-> strategy,
                    sha_before |-> sha_before.sha, sha_after |-> sha_after.sha,
                    commits_added |->
                       IF sha_before.sha # sha_after.sha /\ commits_added = 0
                       THEN Cardinality(Range(sha_before, sha_after))
                       ELSE commits_added,
                    up_to_date |-> (sha_before.sha = sha_after.sha),
                    files_changed |-> files_changed(diff)],
                   root, o.repo, o.server, <<fetch, sync>>, o.used)

GitSyncWithMain ==
    /\ ops < MaxOps
    /\ \E main_branch \in {"main", "feat"}, strategy \in {"merge", "rebase", "squash"} :
          git_sync_with_main(main_branch, strategy)

(***************************************************************************)
(* The tool operations: initial states and next-state relation             *)
(***************************************************************************)

RemoteUrls ==
    { "https://github.com/user/repo.git",
      "git@github.com:user/repo.git",
      "ssh://git@github.com/user/repo.git",
      "https://gitlab.com/user/repo.git",
      "https://gitlab.com/mirrors/github.com-repo.git" }

\* The remotes of a repository, with the token of the environment
RemoteSetups ==
    {[remotes |-> <<>>, token |-> None]}
    \cup {[remotes |-> [r \in {"origin"} |-> u], token |-> "ghp_tok"] : u \in RemoteUrls}
    \cup {[remotes |-> [r \in {"origin"} |-> "https://github.com/user/repo.git"],
           token |-> t] : t \in {None, ""}}

\* The local branches, the remote-tracking branches and the remote's branches
Graphs ==
    { [heads |-> [b \in {"main", "feat"} |-> A1],
       tracking |-> [b \in {"origin/main"} |-> A1],
       upstream |-> [b \in {"main"} |-> "origin/main"],
       server |-> [b \in {"main"} |-> A1]],
      [heads |-> [b \in {"main", "feat"} |-> IF b = "feat" THEN A3 ELSE A1],
       tracking |-> [b \in {"origin/main"} |-> A1],
       upstream |-> <<>>,
       server |-> [b \in {"main", "feat"} |-> IF b = "main" THEN A2 ELSE A1]],
      [heads |-> [b \in {"main", "feat"} |-> A2],
       tracking |-> [b \in {"origin/main", "origin/feat"} |->
                        IF b = "origin/main" THEN A2 ELSE A1],
       upstream |-> [b \in {"feat"} |-> "origin/feat"],
       server |-> [b \in {"main", "feat"} |-> IF b = "main" THEN A2 ELSE A1]],
      [heads |-> [b \in {"master", "feat"} |-> IF b = "feat" THEN A3 ELSE A1],
       tracking |-> [b \in {"origin/master"} |-> A1],
       upstream |-> <<>>,
       server |-> [b \in {"master"} |-> A2]] }

WorkTrees ==
    { [staged |-> {}, modified |-> {}, untracked |-> {}],
      [staged |-> {}, modified |-> {"a.txt"}, untracked |-> {}],
      [staged |-> {}, modified |-> {}, untracked |-> {"new.txt"}],
      [staged |-> {"a.txt"}, modified |-> {}, untracked |-> {}] }

\* The repositories the server is started in: every remote setup under a
\* clean checkout of a branch, and every graph, working tree and HEAD with
\* no remote or with the plain origin
Checkouts ==
    {[g |-> g, w |-> w, rs |-> rs, head |-> head] :
        g \in Graphs, w \in {x \in WorkTrees : ~is_dirty(x)},
        rs \in RemoteSetups, head \in {"feat"}}
    \cup
    {c \in {[g |-> g, w |-> w, rs |-> rs, head |-> head] :
                g \in Graphs, w \in WorkTrees,
                rs \in {x \in RemoteSetups : x.token = None},
                head \in {"main", "master", "feat", DETACHED}} :
        c.head \in DOMAIN c.g.heads \cup {DETACHED}}

InitTools ==
    /\ ClassifyIdle
    /\ repo_instance = NoRepo
    /\ opened = 0
    /\ call = NoCall
    /\ prevHandle = NoRepo
    /\ failedSinceReset = FALSE
    /\ threads = NoThreads
    /\ lastWrite = NoRepo
    /\ nextSha = 4
    /\ gitCalls = <<>>
    /\ gitStderr = None
    /\ treeDiff = <<>>
    /\ parents = <<>>
    /\ result = NoResult
    /\ ops = 0
    /\ \/ /\ cwd = "/tmp"
          /\ repos = [r \in RepoRoots |-> PlainRepo]
          /\ server = [b \in {"main"} |-> A1]
          /\ token = None
       \/ /\ cwd = "/work/app/src"
          /\ \E c \in Checkouts :
             LET g == c.g  w == c.w  rs == c.rs  head == c.head IN
                /\ repos = [r \in RepoRoots |->
                              IF r = "/work/app"
                              THEN [Repository(head,
                                               IF head = DETACHED THEN A1 ELSE NoCommit,
                                               g.heads,
                                               IF rs.remotes = <<>> THEN <<>> ELSE g.tracking,
                                               rs.remotes,
                                               w.staged, w.modified, w.untracked)
                                    EXCEPT !.upstream = IF rs.remotes = <<>> THEN <<>>
                                                        ELSE g.upstream]
                              ELSE PlainRepo]
                /\ server = g.server
                /\ token = rs.token

NextTools ==
    \/ GitStatus
    \/ GitCommit
    \/ GitCreateBranch
    \/ GitPush
    \/ GitPull
    \/ GitSyncWithMain

SpecTools == InitTools /\ [][NextTools]_vars

(***************************************************************************)
(* A session: tool operations with changes of directory and resets between *)
(***************************************************************************)

\* Number of tool operations in a session.
MaxSessionOps == 2

\* Two repositories with changes to commit, neither with a remote
InitSession ==
    /\ ClassifyIdle
    /\ HandleIdle
    /\ repos = [r \in RepoRoots |->
                  IF r = "/work/app"
                  THEN Repository("main", NoCommit, [b \in {"main", "feat"} |-> A1],
                                  <<>>, <<>>, {}, {}, {"new.txt"})
                  ELSE Repository("main", NoCommit, [b \in {"main"} |-> A1],
                                  <<>>, <<>>, {}, {"a.txt"}, {})]
    /\ server = [b \in {"main"} |-> A1]
    /\ token = None
    /\ nextSha = 4
    /\ gitCalls = <<>>
    /\ gitStderr = None
    /\ treeDiff = <<>>
    /\ parents = <<>>
    /\ result = NoResult
    /\ ops = 0

SessionStatus ==
    /\ ops < MaxSessionOps
    /\ git_status

SessionCommit ==
    /\ ops < MaxSessionOps
    /\ \E type \in {"feat", "wip"}, files \in {<<>>, <<"new.txt">>, <<"gone.txt">>} :
          git_commit(type, "add x", files, FALSE)

SessionCreateBranch ==
    /\ ops < MaxSessionOps
    /\ \E name \in {"new", "feat"} : git_create_branch(name, {}, None, None, FALSE)

SessionPush ==
    /\ ops < MaxSessionOps
    /\ git_push("origin", None, TRUE, FALSE)

SessionPull ==
    /\ ops < MaxSessionOps
    /\ git_pull("origin", None)

SessionSync ==
    /\ ops < MaxSessionOps
    /\ \E main_branch \in {"main", "feat"} : git_sync_with_main(main_branch, "merge")

\* os.chdir(d) between two tool operations
SessionChdir ==
    /\ \E d \in Dirs \ {cwd} : cwd' = d
    /\ UNCHANGED <<repo_instance, opened, call, prevHandle, failedSinceReset,
                   threads, lastWrite, classifyVars, toolVars>>

\* reset_repo() between two tool operations
SessionReset ==
    /\ repo_instance # NoRepo
    /\ repo_instance' = reset_repo_instance
    /\ UNCHANGED <<cwd, opened, call, prevHandle, failedSinceReset,
                   threads, lastWrite, classifyVars, toolVars>>

NextSession ==
    \/ SessionStatus
    \/ SessionCommit
    \/ SessionCreateBranch
    \/ SessionPush
    \/ SessionPull
    \/ SessionSync
    \/ SessionChdir
    \/ SessionReset

SpecSession == InitSession /\ [][NextSession]_vars

(***************************************************************************)
(* Ahead and behind counts over whole commit graphs                        *)
(***************************************************************************)

\* Number of commits of a graph.
MaxCommits == 4

\* The parents a commit c may have: one or two of the commits made before it
ParentChoices(c) == {P \in SUBSET (1..(c - 1)) : Cardinality(P) \in {1, 2}}

\* The commit graphs of n commits: commit 1 is the root
RECURSIVE CommitGraphs(_)
CommitGraphs(n) ==
    IF n = 1 THEN {<<{}>>}
    ELSE {Append(g, P) : g \in CommitGraphs(n - 1), P \in ParentChoices(n)}

\* The walk of repo.iter_commits from commit c: c and what its parents reach
RECURSIVE Ancestors(_, _)
Ancestors(g, c) == {c} \cup UNION {Ancestors(g, p) : p \in g[c]}

\* A clean repository on main at commit a of graph g, with origin/main at
\* commit b (no origin/main when b is 0) as the upstream of main
RepoOf(g, a, b) ==
    [Repository("main", NoCommit,
                [h \in {"main"} |-> Commit(a, Ancestors(g, a))],
                IF b = 0 THEN <<>>
                ELSE [t \in {"origin/main"} |-> Commit(b, Ancestors(g, b))],
                [r \in {"origin"} |-> "https://github.com/user/repo.git"],
                {}, {}, {})
     EXCEPT !.upstream = [h \in {"main"} |-> "origin/main"]]

\* /work/app holds main at a and origin/main at b, /work/lib the two swapped
InitCount ==
    /\ ClassifyIdle
    /\ repo_instance = NoRepo
    /\ opened = 0
    /\ call = NoCall
    /\ prevHandle = NoRepo
    /\ failedSinceReset = FALSE
    /\ threads = NoThreads
    /\ lastWrite = NoRepo
    /\ cwd = "/work/app/src"
    /\ server = [b \in {"main"} |-> A1]
    /\ token = None
    /\ nextSha = MaxCommits + 1
    /\ gitCalls = <<>>
    /\ gitStderr = None
    /\ treeDiff = <<>>
    /\ result = NoResult
    /\ ops = 0
    /\ \E g \in CommitGraphs(MaxCommits), a \in 1..MaxCommits, b \in 0..MaxCommits :
          /\ parents = g
          /\ repos = [r \in RepoRoots |->
                        IF r = "/work/app" THEN RepoOf(g, a, b)
                        ELSE IF b = 0 THEN RepoOf(g, a, 0)
                        ELSE RepoOf(g, b, a)]

\* _count_commits_ahead_behind(repo, "main", "origin") in each repository
CountAheadBehind ==
    /\ ops < MaxOps
    /\ result' = Result("_count_commits_ahead_behind",
                        [branch |-> "main", remote |-> "origin"], None, None,
                        [r \in RepoRoots |->
                            [ahead |-> commits_ahead(repos[r], "main", "origin"),
                             behind |-> commits_behind(repos[r], "main", "origin")]])
    /\ ops' = ops + 1
    /\ UNCHANGED <<repos, server, token, nextSha, gitCalls, gitStderr, treeDiff, parents,
                   handleVars, classifyVars>>

\* git_status(), whose tracking information holds the two counts
StatusCounts ==
    /\ ops < MaxOps
    /\ git_status

NextCount == CountAheadBehind \/ StatusCounts

SpecCount == InitCount /\ [][NextCount]_vars

(***************************************************************************)
(* The errors of get_repo and of Repo() given to handle_git_error          *)
(***************************************************************************)

\* get_repo() raised and the except clause calls handle_git_error(e)
HandleRaised ==
    /\ call.op = "get_repo"
    /\ call.raised # None
    /\ exc' = [cls |-> call.raised, msg |-> call.msg]
    /\ gitError' = handle_git_error(exc')
    /\ UNCHANGED <<gitError2, handleVars, toolVars>>

\* git.Repo(dir) raised outside a repository and the except clause calls
\* handle_git_error(e); GitPython puts the directory in the exception
HandleRaw ==
    /\ Discover(cwd) = None
    /\ exc' = [cls |-> "InvalidGitRepositoryError", msg |-> cwd]
    /\ gitError' = handle_git_error(exc')
    /\ UNCHANGED <<gitError2, handleVars, toolVars>>

NextReport == GetRepo \/ ResetRepo \/ Chdir \/ HandleRaised \/ HandleRaw

SpecReport == InitHandle /\ [][NextReport]_vars

(***************************************************************************)
(* git_status while files are written and staged                           *)
(***************************************************************************)

\* The files written in the working tree
StatusFiles == {"a.txt", "new.txt"}

\* A repository after git init, with no commit on its branch yet
EmptyRepo ==
    Repository("main", NoCommit, [b \in {} |-> A1], <<>>, <<>>, {}, {}, {})

\* The paths of the index: those of the HEAD commit and those added since
InIndex(R, f) ==
    \/ f \in R.staged
    \/ (R.head \in DOMAIN R.heads /\ f \in TrackedFiles)

InitStatus ==
    /\ ClassifyIdle
    /\ cwd = "/work/app"
    /\ repo_instance = NoRepo
    /\ opened = 0
    /\ call = NoCall
    /\ prevHandle = NoRepo
    /\ failedSinceReset = FALSE
    /\ threads = NoThreads
    /\ lastWrite = NoRepo
    /\ \E R \in {PlainRepo, EmptyRepo} : repos = [r \in RepoRoots |-> R]
    /\ server = [b \in {"main"} |-> A1]
    /\ token = None
    /\ nextSha = 4
    /\ gitCalls = <<>>
    /\ gitStderr = None
    /\ treeDiff = <<>>
    /\ parents = <<>>
    /\ result = NoResult
    /\ ops = 0

\* test_file.write_text(...): new content for a file of the working tree
WriteText ==
    \E f \in StatusFiles :
       LET R == repos["/work/app"] IN
       /\ repos' = [repos EXCEPT !["/work/app"] =
                       IF InIndex(R, f)
                       THEN [R EXCEPT !.modified = R.modified \cup {f}]
                       ELSE [R EXCEPT !.untracked = R.untracked \cup {f}]]
       /\ UNCHANGED <<server, token, nextSha, gitCalls, gitStderr, treeDiff, result, ops,
                      parents, handleVars, classifyVars>>

\* repo.index.add([file]): the file's content of the working tree enters the index
IndexAdd ==
    \E f \in StatusFiles :
       LET R == repos["/work/app"] IN
       /\ f \in R.modified \cup R.untracked
       /\ repos' = [repos EXCEPT !["/work/app"] = Staged(R, <<f>>)]
       /\ UNCHANGED <<server, token, nextSha, gitCalls, gitStderr, treeDiff, result, ops,
                      parents, handleVars, classifyVars>>

NextStatus == WriteText \/ IndexAdd \/ GitStatus

SpecStatus == InitStatus /\ [][NextStatus]_vars

(***************************************************************************)
(* The validation helpers over all short strings                           *)
(***************************************************************************)

\* Longest branch name validated.
MaxNameLen == 2

\* Longest description validated.
MaxDescLen == 3

\* The strings of at most n characters, each a character of chars
RECURSIVE StringsUpTo(_, _)
StringsUpTo(chars, n) ==
    IF n = 0 THEN {""}
    ELSE LET shorter == StringsUpTo(chars, n - 1) IN
         shorter \cup {t \o SubSeq(chars, i, i) : t \in shorter, i \in 1..Len(chars)}

\* Characters of branch names: letters, a digit, separators, every character
\* of the pattern and white space
NameChars == "aZ7-./ \t\n~^:?*[]\\"

\* Characters of descriptions
DescChars == "az09-A _\n"

InitValidate ==
    /\ ClassifyIdle
    /\ HandleIdle
    /\ ToolsIdle

\* validate_branch_name(branch_name)
ValidateBranchName ==
    /\ ops = 0
    /\ \E branch_name \in StringsUpTo(NameChars, MaxNameLen) :
          LET e == validate_branch_name(branch_name) IN
          result' = Result("validate_branch_name", [branch_name |-> branch_name],
                           IF e = None THEN None ELSE "ValueError", e, NoRet)
    /\ ops' = ops + 1
    /\ UNCHANGED <<repos, server, token, nextSha, gitCalls, gitStderr, treeDiff, parents,
                   handleVars, classifyVars>>

\* validate_description(description)
ValidateDescription ==
    /\ ops = 0
    /\ \E description \in StringsUpTo(DescChars, MaxDescLen) :
          LET e == validate_description(description) IN
          result' = Result("validate_description", [description |-> description],
                           IF e = None THEN None ELSE "ValueError", e, NoRet)
    /\ ops' = ops + 1
    /\ UNCHANGED <<repos, server, token, nextSha, gitCalls, gitStderr, treeDiff, parents,
                   handleVars, classifyVars>>

NextValidate == ValidateBranchName \/ ValidateDescription

SpecValidate == InitValidate /\ [][NextValidate]_vars

(***************************************************************************)
(* Claims about the error classifier                                       *)
(***************************************************************************)

\* The keyword groups in the order of the dispatch table, on the lowered text
InGroup(g, text) ==
    CASE g = 1 -> \/ Contains("authentication failed", Lower(text))
                  \/ Contains("permission denied", Lower(text))
      [] g = 2 -> \/ Contains("conflict", Lower(text))
                  \/ Contains("merge", Lower(text))
      [] g = 3 -> Contains("detached head", Lower(text))
      [] g = 4 -> Contains("nothing to commit", Lower(text))
      [] g = 5 -> \/ Contains("no configured push destination", Lower(text))
                  \/ Contains("no upstream branch", Lower(text))

GroupType(g) ==
    CASE g = 1 -> "auth_failed"
      [] g = 2 -> "merge_conflict"
      [] g = 3 -> "detached_head"
      [] g = 4 -> "nothing_to_commit"
      [] g = 5 -> "no_remote"

GroupsIn(text) == {g \in 1..5 : InGroup(g, text)}

Classified == gitError # NoGitError

\* C1: a command-failure error is classified by the earliest keyword group
\* (auth, conflict, detached head, nothing to commit, no remote) whose keyword
\* occurs, case-insensitively, in its text; with no keyword at all it is
\* git_command_failed.
C1_KeywordPriority ==
    (Classified /\ exc.cls = "GitCommandError") =>
        LET gs == GroupsIn(Str(exc)) IN
        IF gs = {} THEN gitError.error_type = "git_command_failed"
        ELSE \E g \in gs :
                /\ \A h \in gs : g <= h
                /\ gitError.error_type = GroupType(g)

\* an authentication keyword together with a conflict keyword, in upper case
C1_Witness ==
    /\ Classified
    /\ exc.cls = "GitCommandError"
    /\ exc.msg = "PERMISSION DENIED" \o "CONFLICT (content)"
    /\ gitError.error_type = "auth_failed"

KeywordTypes ==
    { "auth_failed", "merge_conflict", "detached_head", "nothing_to_commit",
      "no_remote", "git_command_failed" }

\* C2: the class decides before any keyword: a repository-not-found error is
\* not_a_repo, a validation-class error is validation_error, an error of any
\* other class but the command failure is unknown_error, whatever its text
\* holds; only a command failure gets a keyword type.
C2_ClassBeforeKeyword ==
    Classified =>
        /\ IsInstance(exc, "InvalidGitRepositoryError")
              => gitError.error_type = "not_a_repo"
        /\ IsInstance(exc, "ValueError")
              => gitError.error_type = "validation_error"
        /\ (/\ ~IsInstance(exc, "InvalidGitRepositoryError")
            /\ ~IsInstance(exc, "GitCommandError")
            /\ ~IsInstance(exc, "ValueError"))
              => gitError.error_type = "unknown_error"
        /\ gitError.error_type \in KeywordTypes => exc.cls = "GitCommandError"

\* a validation-class error whose text holds keywords of two groups
C2_Witness ==
    /\ Classified
    /\ exc.cls = "ValueError"
    /\ exc.msg = "Authentication failed" \o "CONFLICT (content)"
    /\ gitError.error_type = "validation_error"

ErrorTypes ==
    KeywordTypes \cup {"not_a_repo", "validation_error", "unknown_error"}

\* C3: every exception, of any class and with any text (the empty one and
\* None included), gets a structured error of one of the nine types, with a
\* suggestion, whose command is absent exactly for validation_error; a second
\* call with the same exception gives the same type.
C3_TotalDeterministic ==
    /\ Classified =>
        /\ gitError.error_type \in ErrorTypes
        /\ gitError.suggestion # None /\ Len(gitError.suggestion) > 0
        /\ gitError.message # None
        /\ (gitError.command = None) <=> (gitError.error_type = "validation_error")
    /\ gitError2 # NoGitError => gitError2.error_type = gitError.error_type

\* an exception built from None, classified twice
C3_Witness ==
    /\ exc.msg = None
    /\ exc.cls = "UnicodeError"
    /\ gitError2 # NoGitError
    /\ gitError.command = None

(***************************************************************************)
(* Claims about the repository handle manager                              *)
(***************************************************************************)

\* C4: while a handle is cached and no reset_repo is called, every step
\* (get_repo calls and changes of working directory) leaves the cached handle
\* and the number of repository openings as they are, and every get_repo
\* returns that very handle without raising.
C4_CachedHandleReused ==
    [][ (repo_instance # NoRepo /\ ~ResetRepo) =>
            /\ repo_instance' = repo_instance
            /\ opened' = opened
            /\ GetRepo => (call'.raised = None /\ call'.ret = repo_instance)
      ]_vars

\* get_repo has returned the cached handle from a directory outside the
\* handle's repository, after a single opening
C4_Witness ==
    /\ call.op = "get_repo"
    /\ call.raised = None
    /\ cwd = call.cwd
    /\ Discover(cwd) # call.ret.root
    /\ opened = 1

\* C5: reset_repo never raises and leaves the cache empty, whatever the cache
\* held; a get_repo on the empty cache opens the repository anew from the
\* working directory of that moment, and the handle it returns is not the one
\* cached before the reset.
C5_ResetThenFresh ==
    /\ [][ ResetRepo => (repo_instance' = NoRepo /\ call'.raised = None) ]_vars
    /\ [][ (GetRepo /\ repo_instance = NoRepo) =>
              /\ opened' = opened + 1
              /\ call'.raised = None =>
                    /\ call'.ret.root = Discover(cwd)
                    /\ call'.ret # NoRepo
                    /\ call'.ret.id # prevHandle.id
         ]_vars

\* after a reset, get_repo returned a new handle on another repository
C5_Witness ==
    /\ call.op = "get_repo"
    /\ call.raised = None
    /\ prevHandle # NoRepo
    /\ call.ret.id # prevHandle.id
    /\ call.ret.root # prevHandle.root
    /\ call.ret.root = Discover(call.cwd)

\* C6: on an empty cache, outside every repository, get_repo raises the
\* ValueError "Not a git repository: <cwd>..." and the cache stays empty; from
\* inside a repository get_repo returns a handle, also after such a failure
\* and with no reset in between.
C6_FailureNotCached ==
    /\ [][ (GetRepo /\ repo_instance = NoRepo /\ Discover(cwd) = None) =>
              /\ call'.raised = "ValueError"
              /\ StartsWith(call'.msg, "Not a git repository: " \o cwd)
              /\ repo_instance' = NoRepo
         ]_vars
    /\ [][ (GetRepo /\ Discover(cwd) # None) =>
              /\ call'.raised = None
              /\ call'.ret # NoRepo
              /\ call'.ret = repo_instance'
         ]_vars

\* get_repo succeeded after a failed get_repo, with no reset in between
C6_Witness ==
    /\ call.op = "get_repo"
    /\ call.raised = None
    /\ failedSinceReset
    /\ repo_instance.root = "/work/lib"

(***************************************************************************)
(* Claims about the tool operations                                        *)
(***************************************************************************)

\* The root of the repository a tool operation started now gets from
\* get_repo (None outside every repository), and that repository
ActingRoot == IF repo_instance # NoRepo THEN repo_instance.root ELSE Discover(cwd)
ActingRepo == repos[ActingRoot]

\* This step is a run of the tool operation op
ToolStep(op) == ops' = ops + 1 /\ result'.op = op

ToolNames ==
    {"git_status", "git_commit", "git_create_branch", "git_push", "git_pull",
     "git_sync_with_main"}

\* C7: every failure of the six tool operations reaches the caller as a
\* ValueError with a non-empty message; no exception of another class
\* escapes, in any repository state.
C7_OnlyValueErrorEscapes ==
    [][ (\E op \in ToolNames : ToolStep(op)) =>
            \/ result'.raised = None
            \/ (result'.raised = "ValueError" /\ result'.msg # "")
      ]_vars

\* Position of the first occurrence of sub in s, 0 when there is none
FirstAt(sub, s) ==
    IF ~Contains(sub, s) THEN 0
    ELSE CHOOSE j \in 1..(Len(s) - Len(sub) + 1) :
            /\ OccursAt(sub, s, j)
            /\ \A k \in 1..(j - 1) : ~OccursAt(sub, s, k)

\* The host of a remote URL: of scheme://[user@]host/path, or of the scp
\* form [user@]host:path
UrlHost(url) ==
    LET p == FirstAt("://", url)
        rest == IF p > 0 THEN SubSeq(url, p + 3, Len(url)) ELSE url
        stop == IF p > 0 THEN FirstAt("/", rest) ELSE FirstAt(":", rest)
        authority == IF stop > 0 THEN SubSeq(rest, 1, stop - 1) ELSE rest
        at == FirstAt("@", authority)
    IN  IF at > 0 THEN SubSeq(authority, at + 1, Len(authority)) ELSE authority

\* C8: git_push and git_pull hand git a token-bearing URL only when the
\* token is set and the remote's host is github.com; for a remote hosted
\* elsewhere, and whenever the token is unset, they hand git the remote name.
C8_TokenOnlyForGitHub ==
    [][ ((ToolStep("git_push") \/ ToolStep("git_pull")) /\ gitCalls' # <<>>) =>
            LET remote == result'.args.remote
                url == ActingRepo.remotes[remote]
                cmd == gitCalls'[1]
                unset == token = None \/ token = ""
            IN  /\ (~unset /\ Contains(token \o "@", cmd)) => UrlHost(url) = "github.com"
                /\ (unset \/ UrlHost(url) # "github.com")
                      => Contains(" " \o remote \o " ", cmd)
      ]_vars

\* A precondition of git_sync_with_main(a.main_branch, a.strategy) fails
SyncPreconditionFails(a) ==
    \/ a.strategy \notin {"merge", "rebase"}
    \/ ActingRoot = None
    \/ is_detached(ActingRepo)
    \/ ActingRepo.head = a.main_branch
    \/ ActingRepo.staged # {}
    \/ ActingRepo.modified # {}
    \/ ActingRepo.untracked # {}

\* C9: when a precondition of git_sync_with_main fails (strategy, detached
\* HEAD, already on main_branch, uncommitted or untracked changes) the
\* operation raises ValueError with no fetch, merge or rebase invoked and the
\* repository and the remote unchanged; on main_branch, with a valid strategy,
\* the error is the already-on-branch one.
C9_SyncRaisesBeforeNetwork ==
    [][ (ToolStep("git_sync_with_main") /\ SyncPreconditionFails(result'.args)) =>
            /\ result'.raised = "ValueError"
            /\ gitCalls' = <<>>
            /\ repos' = repos
            /\ server' = server
            /\ (/\ result'.args.strategy \in {"merge", "rebase"}
                /\ ActingRoot # None
                /\ ActingRepo.head = result'.args.main_branch)
               => StartsWith(result'.msg, "Already on '" \o ActingRepo.head \o "' branch.")
      ]_vars

\* sync ran on main while the remote's main held a commit the branch lacks,
\* and raised without a git call
C9_Witness ==
    /\ result.op = "git_sync_with_main"
    /\ result.args.main_branch = "main"
    /\ StartsWith(result.msg, "Already on 'main' branch.")
    /\ gitCalls = <<>>
    /\ "origin" \in DOMAIN repos["/work/app"].remotes
    /\ server["main"] = A2
    /\ repos["/work/app"].heads["main"] = A1

PullOnDirtyTree ==
    /\ ToolStep("git_pull")
    /\ ActingRoot # None
    /\ \/ ActingRepo.staged # {}
       \/ ActingRepo.modified # {}
       \/ ActingRepo.untracked # {}

IsConflict(stderr) == stderr # None /\ Contains("CONFLICT", stderr)

\* The number of entries of calls equal to cmd
Count(calls, cmd) == Cardinality({i \in DOMAIN calls : calls[i] = cmd})

\* C11: when the merge or rebase of git_sync_with_main fails with a
\* conflict, the abort of the chosen strategy is invoked exactly once, after
\* the one merge or rebase, and the conflict error of that strategy is
\* raised, the same whether the abort succeeded or failed.
C11_SyncConflictAborts ==
    [][ (ToolStep("git_sync_with_main") /\ IsConflict(gitStderr')) =>
            LET strategy == result'.args.strategy
                calls == gitCalls'
            IN  /\ Len(calls) = 3
                /\ StartsWith(calls[1], "git fetch ")
                /\ StartsWith(calls[2], "git " \o strategy \o " origin/")
                /\ calls[3] = "git " \o strategy \o " --abort"
                /\ Count(calls, calls[2]) = 1
                /\ result'.raised = "ValueError"
                /\ result'.msg = (IF strategy = "merge" THEN "Merge" ELSE "Rebase")
                                 \o " conflict detected. Resolve conflicts manually, "
                                 \o "then stage and commit the resolution."
      ]_vars

\* a rebase onto main conflicted and its abort failed: the rebase is still in
\* progress and the conflict error was raised
C11_Witness ==
    /\ result.op = "git_sync_with_main"
    /\ result.args.strategy = "rebase"
    /\ IsConflict(gitStderr)
    /\ repos["/work/app"].inProgress = "rebase"
    /\ StartsWith(result.msg, "Rebase conflict detected.")

\* C12: when the pull of git_pull fails with a merge conflict, git_pull
\* invokes the abort of the merge before raising the conflict error, and the
\* repository is not left with a merge in progress.
C12_PullConflictAborts ==
    [][ (ToolStep("git_pull") /\ IsConflict(gitStderr')) =>
            /\ result'.raised = "ValueError"
            /\ StartsWith(result'.msg, "Merge conflict detected.")
            /\ Count(gitCalls', "git merge --abort") >= 1
            /\ repos'[ActingRoot].inProgress = None
      ]_vars

\* The name a call of git_create_branch with arguments a resolves to: the
\* explicit name, or the composed one; None when nothing is given
ResolvedName(a) ==
    IF a.branch_name # None THEN a.branch_name
    ELSE IF a.issue_number # {}
    THEN LET n == CHOOSE n \in a.issue_number : TRUE IN
         IF a.description # None /\ a.description # ""
         THEN "issue-" \o IntToStr(n) \o "-" \o a.description
         ELSE "issue-" \o IntToStr(n)
    ELSE IF a.description # None THEN "feature-" \o a.description
    ELSE None

\* C13: git_create_branch whose resolved target name is an existing local
\* branch raises the already-exists error naming that branch, with no
\* checkout and no pull, whichever branch is checked out.
C13_ExistingBranchRefused ==
    [][ (/\ ToolStep("git_create_branch")
         /\ ActingRoot # None
         /\ ResolvedName(result'.args) \in DOMAIN ActingRepo.heads) =>
            /\ result'.raised = "ValueError"
            /\ result'.msg = "Branch '" \o ResolvedName(result'.args) \o "' already exists"
            /\ gitCalls' = <<>>
            /\ repos' = repos
      ]_vars

PrimaryBranch(R) == IF "main" \in DOMAIN R.heads THEN "main" ELSE "master"

\* C15: a successful auto-named git_create_branch bases the new branch on
\* from_branch when given, otherwise on the primary branch, whichever branch
\* was checked out; it reports that base in based_on and pulls from it when
\* no from_branch was given (or the pull was asked for) and a remote exists.
\* A successful explicitly named call with no from_branch makes the branch at
\* the current HEAD, reports no base and makes no other git call.
C15_BaseBranch ==
    [][ (ToolStep("git_create_branch") /\ result'.raised = None) =>
            LET a == result'.args
                name == result'.ret.branch_name
                base == IF a.from_branch # None THEN a.from_branch
                        ELSE PrimaryBranch(ActingRepo)
                pull == "git pull origin " \o base
                after == repos'[ActingRoot]
            IN  /\ a.branch_name = None =>
                      /\ result'.ret.based_on = base
                      /\ gitCalls'[1] = "git checkout " \o base
                      /\ after.heads[name] = after.heads[base]
                      /\ Count(gitCalls', pull) = 1
                            <=> /\ (a.from_branch = None \/ a.pull_latest)
                                /\ DOMAIN ActingRepo.remotes # {}
                /\ (a.branch_name # None /\ a.from_branch = None) =>
                      /\ result'.ret.based_on = None
                      /\ gitCalls' = <<"git checkout -b " \o name>>
                      /\ after.heads[name] = HeadCommit(ActingRepo)
      ]_vars

\* with feat checked out and no local main, an auto-named branch was based
\* on master, after a pull that brought master to the remote's commit
C15_Witness ==
    /\ result.op = "git_create_branch"
    /\ result.raised = None
    /\ result.args.branch_name = None
    /\ result.args.from_branch = None
    /\ result.ret.based_on = "master"
    /\ result.ret.previous_branch = "feat"
    /\ repos["/work/app"].heads[result.ret.branch_name] = A2
    /\ Len(gitCalls) = 3

\* This step is a tool operation run on a repository whose HEAD is detached
OnDetachedHead(op) ==
    /\ ToolStep(op)
    /\ ActingRoot # None
    /\ is_detached(ActingRepo)

\* C16 as stated: on a detached HEAD git_status, git_sync_with_main, git_push
\* and git_pull raise the ValueError describing the detached HEAD state,
\* whatever their other arguments, before any git call.
C16_Original ==
    [][ (\E op \in {"git_status", "git_sync_with_main", "git_push", "git_pull"} :
            OnDetachedHead(op)) =>
            /\ result'.raised = "ValueError"
            /\ Contains("detached HEAD", result'.msg)
            /\ gitCalls' = <<>>
      ]_vars

\* C16: on a detached HEAD git_status always, git_sync_with_main with a
\* valid strategy, and git_push and git_pull called without a branch raise
\* the ValueError describing the detached HEAD state, with no git call and
\* nothing changed; git_sync_with_main with another strategy raises the
\* strategy error, equally before any git call.
C16_DetachedHeadRefused ==
    [][ (\E op \in {"git_status", "git_sync_with_main", "git_push", "git_pull"} :
            OnDetachedHead(op)) =>
            LET op == result'.op
                a == result'.args
                refused == /\ result'.raised = "ValueError"
                           /\ gitCalls' = <<>>
                           /\ repos' = repos
                           /\ server' = server
            IN  /\ op = "git_status" =>
                      refused /\ result'.msg = "Repository is in detached HEAD state"
                /\ op = "git_sync_with_main" =>
                      /\ refused
                      /\ a.strategy \in {"merge", "rebase"} => result'.msg = DetachedHeadText
                /\ (op \in {"git_push", "git_pull"} /\ a.branch = None) =>
                      refused /\ result'.msg = DetachedHeadText
      ]_vars

\* git_push without a branch was refused on a detached HEAD, with a remote
\* configured that lacked the branch feat
C16_Witness ==
    /\ result.op = "git_push"
    /\ result.args.branch = None
    /\ result.msg = DetachedHeadText
    /\ is_detached(repos["/work/app"])
    /\ "origin" \in DOMAIN repos["/work/app"].remotes
    /\ "feat" \notin DOMAIN server
    /\ gitCalls = <<>>

\* C17: while a handle is cached, every tool operation acts on the
\* repository of that handle and keeps the handle: no other repository
\* changes, whatever the working directory.
C17_ToolsActOnCachedHandle ==
    [][ ((\E op \in ToolNames : ToolStep(op)) /\ repo_instance # NoRepo) =>
            /\ repo_instance' = repo_instance
            /\ \A r \in RepoRoots \ {repo_instance.root} : repos'[r] = repos[r]
      ]_vars

\* The least set of commits that holds S and the parents of its members
RECURSIVE Closed(_)
Closed(S) ==
    LET T == S \cup UNION {parents[c] : c \in S}
    IN  IF T = S THEN S ELSE Closed(T)

\* The commits reached from ref x and not from ref y
Only(x, y) == Closed({x.sha}) \ Closed({y.sha})

\* The two refs of the repository at /work/app both exist
BothRefs == "origin/main" \in DOMAIN repos["/work/app"].tracking

\* C18: when the local and the remote ref both exist, ahead is the number of
\* commits reached from the local ref and not from the remote one and behind
\* the number reached from the remote ref and not from the local one, in
\* _count_commits_ahead_behind and in git_status alike; with the two refs
\* swapped the two counts are swapped.
C18_AheadBehind ==
    (BothRefs /\ result # NoResult) =>
        LET A == repos["/work/app"].heads["main"]
            B == repos["/work/app"].tracking["origin/main"]
        IN  /\ result.op = "_count_commits_ahead_behind" =>
                  /\ result.ret["/work/app"].ahead = Cardinality(Only(A, B))
                  /\ result.ret["/work/app"].behind = Cardinality(Only(B, A))
                  /\ result.ret["/work/lib"].ahead = result.ret["/work/app"].behind
                  /\ result.ret["/work/lib"].behind = result.ret["/work/app"].ahead
            /\ result.op = "git_status" =>
                  /\ result.ret.ahead = Cardinality(Only(A, B))
                  /\ result.ret.behind = Cardinality(Only(B, A))

\* the two refs share only the root: two commits are on the local side only
\* and one on the remote side only, and the counts are 2 and 1
C18_Witness ==
    /\ result.op = "_count_commits_ahead_behind"
    /\ BothRefs
    /\ repos["/work/app"].heads["main"].hist \cap
          repos["/work/app"].tracking["origin/main"].hist = {1}
    /\ result.ret["/work/app"].ahead = 2
    /\ result.ret["/work/app"].behind = 1

\* The path C19 gives for a diff entry: its new path, its old path only when
\* the new one is absent
NewPathFirst(d) == IF d.b_path # None /\ d.b_path # "" THEN d.b_path ELSE d.a_path

\* C19: the files_changed that git_pull and git_sync_with_main return when
\* HEAD moved holds, for each entry of the tree diff between sha_before and
\* sha_after, the entry's new path (its old path only when the new path is
\* absent) and nothing else; for a renamed file it holds the new name.
C19_FilesChangedNewPath ==
    [][ ((ToolStep("git_pull") \/ ToolStep("git_sync_with_main"))
          /\ result'.raised = None
          /\ result'.ret.sha_before # result'.ret.sha_after) =>
            result'.ret.files_changed
               = {NewPathFirst(treeDiff'[i]) : i \in DOMAIN treeDiff'}
      ]_vars

\* The attribution footer: the Claude Code line and the Co-Authored-By line
Footer ==
    "U+1F916 Generated with [Claude Code](https://claude.com/claude-code)\n"
    \o "\n"
    \o "Co-Authored-By: Claude <noreply@anthropic.com>"

\* C20: a successful git_commit(type, message) returns the message
\* "{type}: {message}", a blank line and the attribution footer; the commit
\* stored under the returned sha carries that message; stats.files_changed
\* is the number of files that commit changed, 1 when the repository held a
\* single new untracked file and nothing else to commit.
C20_CommitMessageAndStats ==
    [][ (ToolStep("git_commit") /\ result'.raised = None) =>
            LET a == result'.args
                ret == result'.ret
                before == repos[Discover(cwd)]
                after == repos'[Discover(cwd)]
            IN  /\ ret.message = a.type \o ": " \o a.message \o "\n\n" \o Footer
                /\ ret.sha \in DOMAIN after.log
                /\ HeadCommit(after).sha = ret.sha
                /\ after.log[ret.sha].message = ret.message
                /\ ret.stats.files_changed = Cardinality(after.log[ret.sha].files)
                /\ (/\ Cardinality(before.untracked) = 1
                    /\ before.staged = {}
                    /\ before.modified = {}
                    /\ Len(a.files) = 0)
                   => ret.stats.files_changed = 1
      ]_vars

\* git_commit("feat", "add x") ran on a repository whose only change was the
\* untracked new.txt, and reported one file changed
C20_Witness ==
    /\ result.op = "git_commit"
    /\ result.raised = None
    /\ result.args.type = "feat"
    /\ result.args.message = "add x"
    /\ result.args.files = <<>>
    /\ result.ret.stats.files_changed = 1
    /\ repos["/work/app"].log[result.ret.sha].files = {"new.txt"}
    /\ StartsWith(result.ret.message, "feat: add x")

\* The string holds a white space character, one of ~ ^ : ? * [ ] \ or ".."
HasForbidden(name) ==
    \/ \E i \in 1..Len(name) :
          SubSeq(name, i, i) \in {" ", "\t", "\n", "\r", "~", "^", ":", "?", "*", "[", "]", "\\"}
    \/ \E i \in 1..(Len(name) - 1) : SubSeq(name, i, i + 1) = ".."

\* C21 as stated: validate_branch_name fails for every string that holds a
\* white space character, one of ~ ^ : ? * [ ] \ or "..", and succeeds for
\* every string free of all of these.
C21_Original ==
    result.op = "validate_branch_name" =>
        (result.raised = "ValueError" <=> HasForbidden(result.args.branch_name))

\* C21: validate_branch_name fails for every string that holds a white space
\* character, one of ~ ^ : ? * [ ] \ or "..", and for the empty string; it
\* succeeds for every other string.
C21_BranchNameValidation ==
    result.op = "validate_branch_name" =>
        (result.raised = "ValueError"
            <=> (HasForbidden(result.args.branch_name) \/ result.args.branch_name = ""))

\* the name ".." was refused
C21_Witness ==
    /\ result.op = "validate_branch_name"
    /\ result.args.branch_name = ".."
    /\ result.raised = "ValueError"

\* Lowercase letters and digits
SlugChars == {SubSeq(LowerChars \o Digits, i, i) : i \in 1..Len(LowerChars \o Digits)}

\* One or more non-empty segments of lowercase letters and digits joined by
\* single hyphens
IsSlug(d) ==
    /\ Len(d) > 0
    /\ \A i \in 1..Len(d) : SubSeq(d, i, i) \in SlugChars \cup {"-"}
    /\ SubSeq(d, 1, 1) # "-"
    /\ SubSeq(d, Len(d), Len(d)) # "-"
    /\ \A i \in 1..(Len(d) - 1) : SubSeq(d, i, i + 1) # "--"

\* C22: validate_description succeeds exactly for the strings made of one or
\* more non-empty segments of lowercase letters and digits joined by single
\* hyphens, and fails for every other string.
C22_DescriptionValidation ==
    result.op = "validate_description" =>
        (result.raised = None <=> IsSlug(result.args.description))

\* C23: in every result of git_status, clean is true exactly when the staged,
\* modified and untracked lists are all empty, and a file staged and then
\* modified again is in both the staged and the modified list.
C23_StatusLists ==
    [][(ToolStep("git_status") /\ result'.raised = None) =>
          /\ result'.ret.clean <=> (/\ result'.ret.staged = {}
                                    /\ result'.ret.modified = {}
                                    /\ result'.ret.untracked = {})
          /\ (ActingRepo.staged \cap ActingRepo.modified)
                \subseteq (result'.ret.staged \cap result'.ret.modified)]_vars

\* No staged, modified or untracked change
NoChanges(R) == R.staged = {} /\ R.modified = {} /\ R.untracked = {}

\* The repository around the working directory is the one a git_commit with
\* files omitted has just committed in
JustCommittedAll ==
    /\ result.op = "git_commit"
    /\ result.raised = None
    /\ Len(result.args.files) = 0
    /\ Discover(cwd) # None
    /\ HeadCommit(repos[Discover(cwd)]).sha = result.ret.sha

\* The arguments of the git_commit of this step pass the checks made before
\* the check for changes
CommitArgsValid ==
    /\ \E i \in DOMAIN VALID_COMMIT_TYPES : VALID_COMMIT_TYPES[i] = result'.args.type
    /\ \E i \in 1..Len(result'.args.message) :
          SubSeq(result'.args.message, i, i) \notin {" ", "\t", "\n", "\r"}
    /\ \A i \in DOMAIN result'.args.files :
          file_exists(repos[Discover(cwd)], result'.args.files[i])

\* C24 as stated: git_commit on a repository with no staged, modified or
\* untracked change raises "No changes to commit" and HEAD is unchanged; so
\* does a git_commit made immediately after a successful git_commit with
\* files omitted.
C24_Original ==
    [][(/\ ToolStep("git_commit")
        /\ Discover(cwd) # None
        /\ (NoChanges(repos[Discover(cwd)]) \/ JustCommittedAll)) =>
          /\ result'.raised = "ValueError"
          /\ result'.msg = "No changes to commit"
          /\ repos' = repos]_vars

\* C24: git_commit on a repository with no staged, modified or untracked
\* change, and so a git_commit made immediately after a successful git_commit
\* with files omitted, raises a ValueError and leaves HEAD and the index
\* unchanged; the error is "No changes to commit" when the commit type is
\* valid, the message is not empty and every listed file exists.
C24_NoChangesToCommit ==
    [][(/\ ToolStep("git_commit")
        /\ Discover(cwd) # None
        /\ (NoChanges(repos[Discover(cwd)]) \/ JustCommittedAll)) =>
          /\ result'.raised = "ValueError"
          /\ CommitArgsValid => result'.msg = "No changes to commit"
          /\ repos' = repos]_vars

\* a second git_commit was refused for want of changes after the commit of
\* the first
C24_Witness ==
    /\ ops = 2
    /\ result.op = "git_commit"
    /\ result.msg = "No changes to commit"
    /\ HeadCommit(repos["/work/app"]).sha = 4

\* The commit type of the git_commit of this step is none of the valid ones
BadCommitType == \A i \in DOMAIN VALID_COMMIT_TYPES : VALID_COMMIT_TYPES[i] # result'.args.type

\* Its message is empty or white space
BlankMessage ==
    \A i \in 1..Len(result'.args.message) :
       SubSeq(result'.args.message, i, i) \in {" ", "\t", "\n", "\r"}

\* One of its files is not in the working directory
MissingFile ==
    \E i \in DOMAIN result'.args.files :
       ~file_exists(repos[Discover(cwd)], result'.args.files[i])

\* C25: git_commit checks the commit type, then the message, then the
\* existence of every listed file, then the presence of changes; the first
\* check that fails gives the error ("File not found" for a missing file even
\* when nothing is changed), and a failing check leaves the index and HEAD
\* as they were, no git command having run.
C25_CommitCheckOrder ==
    [][(ToolStep("git_commit") /\ Discover(cwd) # None) =>
          LET failed == BadCommitType \/ BlankMessage \/ MissingFile
                           \/ NoChanges(repos[Discover(cwd)])
              expected ==
                  IF BadCommitType THEN "Invalid commit type: "
                  ELSE IF BlankMessage THEN "Commit message cannot be empty"
                  ELSE IF MissingFile THEN "File not found: "
                  ELSE "No changes to commit"
          IN  failed => /\ result'.raised = "ValueError"
                        /\ StartsWith(result'.msg, expected)
                        /\ repos' = repos
                        /\ gitCalls' = <<>>]_vars

\* a file that does not exist was named on a repository with no change
C25_Witness ==
    /\ result.op = "git_commit"
    /\ result.args.type = "feat"
    /\ result.args.message = "add x"
    /\ result.args.files = <<"a.txt", "gone.txt">>
    /\ result.msg = "File not found: gone.txt"
    /\ NoChanges(repos["/work/app"])

\* The git_sync_with_main of this step got past its fetch
SyncFetched ==
    /\ ToolStep("git_sync_with_main")
    /\ Len(gitCalls') >= 1
    /\ (result'.raised # None => Len(gitCalls') > 1)

\* After the fetch of this step origin/{main_branch} has no commit that the
\* branch checked out before the step lacks
NothingToAdd ==
    LET ref == "origin/" \o result'.args.main_branch
        F == repos'[ActingRoot]
    IN  /\ ref \in DOMAIN F.tracking
        /\ F.tracking[ref].hist \subseteq HeadCommit(ActingRepo).hist

\* C26: when after the fetch no commit of origin/{main_branch} is missing
\* from the current branch, git_sync_with_main returns up_to_date true,
\* commits_added 0, sha_after equal to sha_before and no files_changed, and
\* runs neither merge nor rebase; every successful result has up_to_date
\* true exactly when sha_before equals sha_after.
C26_SyncUpToDate ==
    [][ToolStep("git_sync_with_main") =>
          /\ (SyncFetched /\ NothingToAdd) =>
                /\ result'.raised = None
                /\ result'.ret.up_to_date
                /\ result'.ret.commits_added = 0
                /\ result'.ret.sha_after = result'.ret.sha_before
                /\ result'.ret.sha_before = HeadCommit(ActingRepo).sha
                /\ result'.ret.files_changed = {}
                /\ Len(gitCalls') = 1
                /\ HeadCommit(repos'[ActingRoot]) = HeadCommit(ActingRepo)
          /\ result'.raised = None =>
                (result'.ret.up_to_date <=> result'.ret.sha_before = result'.ret.sha_after)]_vars

\* a sync of a branch ahead of origin/main returned up to date after its fetch
C26_Witness ==
    /\ result.op = "git_sync_with_main"
    /\ result.raised = None
    /\ result.ret.up_to_date
    /\ Len(gitCalls) = 1
    /\ "origin/main" \in DOMAIN repos["/work/app"].tracking
    /\ repos["/work/app"].tracking["origin/main"].hist # HeadCommit(repos["/work/app"]).hist

\* C28: when git_sync_with_main returns, the current branch holds every
\* commit the remote's main_branch had at the fetch of the call, whether the
\* fetch went through the token URL or through the remote name; so
\* up_to_date is returned only when the remote's branch had nothing to add.
C28_SyncHoldsRemoteMain ==
    [][(ToolStep("git_sync_with_main") /\ result'.raised = None) =>
          /\ result'.args.main_branch \in DOMAIN server
          /\ server[result'.args.main_branch].hist
                \subseteq HeadCommit(repos'[ActingRoot]).hist]_vars

\* C29: whenever git_create_branch raises, the branch checked out afterwards
\* is the one checked out before the call and no branch of the target name
\* has been created; on success the new branch exists and is checked out and
\* previous_branch is the branch that was checked out when the call began.
C29_CreateBranchAllOrNothing ==
    [][(ToolStep("git_create_branch") /\ ActingRoot # None) =>
          LET before == ActingRepo
              after == repos'[ActingRoot]
          IN  IF result'.raised # None
              THEN /\ after.head = before.head
                   /\ DOMAIN after.heads = DOMAIN before.heads
              ELSE /\ result'.ret.branch_name \in DOMAIN after.heads
                   /\ result'.ret.branch_name \notin DOMAIN before.heads
                   /\ after.head = result'.ret.branch_name
                   /\ result'.ret.previous_branch = before.head]_vars

\* C27: the error get_repo raises outside a repository is classified by
\* handle_git_error as validation_error with no command, never as
\* not_a_repo; not_a_repo is given only to the git library's own error.
C27_GetRepoErrorIsValidation ==
    [][(exc' # exc \/ gitError' # gitError) =>
          /\ (call.op = "get_repo" /\ call.raised # None
                /\ exc' = [cls |-> call.raised, msg |-> call.msg]) =>
                   /\ gitError'.error_type = "validation_error"
                   /\ gitError'.command = None
                   /\ gitError'.message = NotARepoText(call.cwd)
          /\ gitError'.error_type = "not_a_repo" =>
                exc'.cls = "InvalidGitRepositoryError"]_vars

\* the error get_repo raised in /tmp has been classified
C27_Witness ==
    /\ call.op = "get_repo"
    /\ call.raised = "ValueError"
    /\ exc = [cls |-> "ValueError", msg |-> NotARepoText("/tmp")]
    /\ gitError.error_type = "validation_error"

\* C30: in every interleaving of the steps of get_repo and reset_repo run by
\* two callers, a get_repo that returns normally returns a constructed
\* handle, never the empty value; and once every call has completed the slot
\* is empty or holds the handle written by the last writer.
C30_ConcurrentGetRepo ==
    /\ \A t \in ThreadIds :
          (/\ threads[t].op = "get_repo"
           /\ threads[t].pc = "done"
           /\ threads[t].raised = None) => threads[t].ret # NoRepo
    /\ (\A t \in ThreadIds : threads[t].pc \in {"idle", "done"}) =>
          (repo_instance = NoRepo \/ repo_instance = lastWrite)

====
